---- MODULE Spec2Model ----
(***************************************************************************)
(* Playlist mutation and migration against a remote catalog service        *)
(* (src/server/ytmusic_load.py, src/server/ytmusic_migrate.py).            *)
(*                                                                         *)
(* A playlist row is a record [videoId, setVideoId]; "" stands for a field *)
(* that is absent, not a string, or blank (what safe_str returns for it).  *)
(* A row that is not a dict behaves in every scan of the source exactly as *)
(* a row whose two fields are "".  Indices are 0-based as in the source.   *)
(***************************************************************************)
EXTENDS Integers, Sequences, FiniteSets, TLC

VARIABLES
    pc,                     \* position of the running handler
    payload,                \* the request
    result,                 \* the emitted response
    remote,                 \* the playlist as the service holds it
    remotePrev,             \* the playlist before the latest mutation (a stale read)
    nextTok,                \* number of the next position token the service hands out
    playlistDeleted,        \* the service no longer holds the playlist
    calls,                  \* remote calls issued so far, by primitive
    addReturned,            \* outcome of the latest add_playlist_items call
    editReturned,           \* outcome of the latest edit_playlist call
    polls,                  \* what the after-snapshot reads of the current poll loop returned
    before_set_video_ids,
    after_tracks,
    inserted_set_video_id,
    inserted_index,
    fallback_set_video_id,
    fallback_index,
    attempt,
    moveItem,               \* the token pair of the latest reorder call
    tracks,                 \* handle_move_playlist_song: the in-memory mirror
    from_index,
    final_index,
    steps,
    moved_set_video_id,
    step,                   \* handle_move_playlist_song: loop counter
    index,                  \* migrate_songs: index of the song being resolved
    pending_migrations,
    failed,
    successful_migrations,
    pending_index,          \* migrate_songs: position of the song being added
    resolved,               \* input indices queued in pending_migrations
    appended                \* input indices whose single-item append returned

envVars == <<remote, remotePrev, nextTok, playlistDeleted>>
scanVars == <<before_set_video_ids, after_tracks, inserted_set_video_id,
              inserted_index, fallback_set_video_id, fallback_index, attempt, polls>>
moveVars == <<tracks, from_index, final_index, steps, moved_set_video_id, step>>
migVars == <<index, pending_migrations, failed, successful_migrations, pending_index,
             resolved, appended>>
vars == <<pc, payload, result, remote, remotePrev, nextTok, playlistDeleted, calls, addReturned,
          editReturned, polls, before_set_video_ids, after_tracks,
          inserted_set_video_id, inserted_index, fallback_set_video_id,
          fallback_index, attempt, moveItem, tracks, from_index, final_index,
          steps, moved_set_video_id, step, index, pending_migrations, failed,
          successful_migrations, pending_index, resolved, appended>>

-----------------------------------------------------------------------------
(* Bounds of the model.                                                     *)

MaxRows == 3            \* rows of the playlist before the operation
MaxIndex == 3           \* largest expectedIndex / positions of a request

(* Program constants.                                                       *)

PollAttempts == 5       \* for attempt in range(5)

(* Mutant of LastAttempt: a pause follows the fifth attempt as well. *)
PauseAfterEveryAttempt == PollAttempts

LastAttempt == 4        \* if attempt < 4: time.sleep(0.25)

-----------------------------------------------------------------------------
(* Python values.                                                           *)

None == -1              \* the None of an "int | None"

Min(a, b) == IF a < b THEN a ELSE b

At(seq, i) == seq[i + 1]            \* seq[i] of a Python list, 0 <= i < len

Swap(seq, i, j) ==
    [k \in 1..Len(seq) |->
        IF k = i + 1 THEN seq[j + 1] ELSE IF k = j + 1 THEN seq[i + 1] ELSE seq[k]]

(* JSON values of a request field. *)
JNull == [t |-> "null"]
JBool(b) == [t |-> "bool", b |-> b]
JInt(n) == [t |-> "int", n |-> n]
JStr(s) == [t |-> "str", s |-> s]

(* str.strip() and str.lower() on the strings the model uses. *)
Strip(s) ==
    CASE s = " " -> ""
      [] s = " PL1 " -> "PL1"
      [] s = " v1 " -> "v1"
      [] s = " 2 " -> "2"
      [] s = " Error " -> "Error"
      [] s = " UP" -> "UP"
      [] s = " YES " -> "YES"
      [] s = " k2 " -> "k2"
      [] OTHER -> s

Lower(s) ==
    CASE s = "FAILED" -> "failed"
      [] s = "Error" -> "error"
      [] s = "STATUS_SUCCEEDED" -> "status_succeeded"
      [] s = "STATUS_FAILED" -> "status_failed"
      [] s = "UP" -> "up"
      [] s = "Down" -> "down"
      [] s = "YES" -> "yes"
      [] OTHER -> s

(* int(stripped) of a string: the decimal strings of the model; None for a
   ValueError. *)
ParseInt(s) ==
    CASE s = "0" -> 0
      [] s = "1" -> 1
      [] s = "2" -> 2
      [] s = "3" -> 3
      [] s = "-1" -> 0 - 1
      [] OTHER -> None

safe_str(value) == IF value.t = "str" THEN Strip(value.s) ELSE ""

safe_non_negative_int(value) ==
    IF value.t = "bool" THEN None
    ELSE IF value.t = "int" THEN (IF value.n >= 0 THEN value.n ELSE None)
    ELSE IF value.t = "str"
        THEN LET stripped == Strip(value.s) IN
             IF stripped = "" THEN None
             ELSE LET parsed == ParseInt(stripped) IN
                  IF parsed >= 0 THEN parsed ELSE None
    ELSE None

-----------------------------------------------------------------------------
(* Values a remote mutation returns.                                        *)

PyNone == [t |-> "none"]
PyFalse == [t |-> "bool", b |-> FALSE]
PyTrue == [t |-> "bool", b |-> TRUE]
(* a dict: status is a JSON value or absent; ok and success are "absent",
   "False" or "True" *)
PyDict(status, ok, success) ==
    [t |-> "dict", status |-> status, ok |-> ok, success |-> success]
Absent == [t |-> "absent"]

operation_explicitly_failed(r) ==
    IF r.t = "bool" /\ r.b = FALSE THEN TRUE
    ELSE IF r.t = "dict"
        THEN LET status == Lower(safe_str(r.status)) IN
             IF status \in {"failed", "error"} THEN TRUE
             ELSE IF r.ok = "False" THEN TRUE
             ELSE r.success = "False"
    ELSE FALSE

(* What the service returns from a mutation it applied, and from one it
   refused. *)
AppliedResults ==
    { PyNone, PyDict(JStr("STATUS_SUCCEEDED"), "absent", "absent") }
RefusedResults ==
    { PyFalse,
      PyDict(JStr("FAILED"), "absent", "absent"),
      PyDict(Absent, "False", "absent") }

NotCalled == [t |-> "not_called"]
Raised == [t |-> "raised"]

-----------------------------------------------------------------------------
(* The remote playlist.                                                     *)

VideoIds == {"v1", "v2"}
Tok(i) == "t" \o ToString(i)
Row(v, s) == [videoId |-> v, setVideoId |-> s]

(* Playlists of n rows: row k (1-based) carries token Tok(k) or none. *)
RECURSIVE PlaylistsOfLen(_)
PlaylistsOfLen(n) ==
    IF n = 0 THEN { <<>> }
    ELSE { Append(p, Row(v, s)) :
             p \in PlaylistsOfLen(n - 1), v \in VideoIds, s \in {"", Tok(n)} }

Playlists == UNION { PlaylistsOfLen(n) : n \in 0..MaxRows }

TokenIndex(rows, tok) ==
    IF \E k \in 1..Len(rows) : rows[k].setVideoId = tok
    THEN (CHOOSE k \in 1..Len(rows) : rows[k].setVideoId = tok) - 1
    ELSE None

Without(rows, i) == SubSeq(rows, 1, i) \o SubSeq(rows, i + 2, Len(rows))

(* Mutant of Reorder: the row with token a is placed immediately after the
   row with token b. *)
ReorderAfter(rows, a, b) ==
    LET i == TokenIndex(rows, a) IN
    IF a = "" \/ b = "" \/ a = b \/ i = None \/ TokenIndex(rows, b) = None
    THEN rows
    ELSE LET rest == Without(rows, i)
             j == TokenIndex(rest, b)
         IN SubSeq(rest, 1, j + 1) \o <<At(rows, i)>> \o SubSeq(rest, j + 2, Len(rest))

(* The reorder primitive: place the row with token a immediately before the
   row with token b. *)
Reorder(rows, a, b) ==
    LET i == TokenIndex(rows, a) IN
    IF a = "" \/ b = "" \/ a = b \/ i = None \/ TokenIndex(rows, b) = None
    THEN rows
    ELSE LET rest == Without(rows, i)
             j == TokenIndex(rest, b)
         IN SubSeq(rest, 1, j) \o <<At(rows, i)>> \o SubSeq(rest, j + 1, Len(rest))

(* What get_playlist can produce: an exception, a payload whose tracks field
   is not a list, the playlist as it was before the latest mutation, or the
   playlist as it is. *)
ReadRaise == [kind |-> "raise", tracks |-> <<>>]
ReadMalformed == [kind |-> "malformed", tracks |-> <<>>]
ReadOk(rows) == [kind |-> "ok", tracks |-> rows]
GetPlaylistResults == { ReadRaise, ReadMalformed, ReadOk(remotePrev), ReadOk(remote) }

(* tracks = snapshot.get("tracks") ...; after_tracks = tracks if list else [] *)
SnapshotTracks(read) == IF read.kind = "ok" THEN read.tracks ELSE <<>>

Count(k) == [calls EXCEPT ![k] = @ + 1]
NoCalls == [get |-> 0, add |-> 0, edit |-> 0, sleep |-> 0, search |-> 0,
            remove |-> 0, delete |-> 0]

-----------------------------------------------------------------------------
(* emit / emit_error                                                        *)

Error(code, status) == [ok |-> FALSE, code |-> code, status |-> status]
NoResult == [ok |-> FALSE, code |-> "", status |-> 0]

(* Mutant of AddFailed: the append failure is reported under the move code. *)
AddFailedAsMoveFailed == Error("playlist_song_move_failed", 502)

AddFailed == Error("playlist_song_add_failed", 502)

(* Mutant of MoveFailed: the reorder failure is reported under the append
   code. *)
MoveFailedAsAddFailed == Error("playlist_song_add_failed", 502)

MoveFailed == Error("playlist_song_move_failed", 502)

Ok(fields) == [ok |-> TRUE, code |-> "", status |-> 200] @@ fields

-----------------------------------------------------------------------------
(* handle_insert_video_at_position                                          *)

playlist_id == safe_str(payload.playlistId)
video_id == safe_str(payload.videoId)
(* Mutant of expected_index: an expectedIndex that is not a non-negative
   integer is taken as 0. *)
ExpectedIndexDefaultsToZero ==
    IF safe_non_negative_int(payload.expectedIndex) = None THEN 0
    ELSE safe_non_negative_int(payload.expectedIndex)

expected_index == safe_non_negative_int(payload.expectedIndex)

(* the set of tokens present before the append *)
BeforeSetVideoIds(before_tracks) ==
    { before_tracks[k].setVideoId : k \in 1..Len(before_tracks) } \ {""}

NoScan ==
    [inserted_set_video_id |-> "", inserted_index |-> 0 - 1,
     fallback_set_video_id |-> "", fallback_index |-> 0 - 1]

(* for track_index in range(len(after_tracks) - 1, -1, -1): ... *)
RECURSIVE ScanFrom(_, _, _, _, _)
ScanFrom(rows, vid, before, track_index, acc) ==
    IF track_index < 0 THEN acc
    ELSE LET track == At(rows, track_index)
             track_set_video_id == track.setVideoId
         IN IF track.videoId # vid
            THEN ScanFrom(rows, vid, before, track_index - 1, acc)
            ELSE IF track_set_video_id # "" /\ track_set_video_id \notin before
            THEN [acc EXCEPT !.inserted_set_video_id = track_set_video_id,
                             !.inserted_index = track_index]
            ELSE IF track_set_video_id # "" /\ acc.fallback_set_video_id = ""
            THEN ScanFrom(rows, vid, before, track_index - 1,
                          [acc EXCEPT !.fallback_set_video_id = track_set_video_id,
                                      !.fallback_index = track_index])
            ELSE ScanFrom(rows, vid, before, track_index - 1, acc)

(* Mutant of ScanAfterTracks: the scan runs from the first row to the last. *)
ScanFirstToLast(rows, vid, before) ==
    LET new == { k \in 0..(Len(rows) - 1) :
                   /\ At(rows, k).videoId = vid
                   /\ At(rows, k).setVideoId # ""
                   /\ At(rows, k).setVideoId \notin before }
        first == CHOOSE k \in new : \A j \in new : k <= j
    IN IF new = {} THEN ScanFrom(rows, vid, before, Len(rows) - 1, NoScan)
       ELSE [NoScan EXCEPT !.inserted_set_video_id = At(rows, first).setVideoId,
                           !.inserted_index = first]

ScanAfterTracks(rows, vid, before) ==
    ScanFrom(rows, vid, before, Len(rows) - 1, NoScan)

(* Mutant of SuccessorIndex: the slot is not shifted when the inserted row
   sits before the target. *)
SuccessorIndexNoShift(ins_index, bounded_expected_index) == bounded_expected_index

(* successor_index = bounded_expected_index (+ 1 when the inserted row sits
   before the target slot) *)
SuccessorIndex(ins_index, bounded_expected_index) ==
    IF ins_index >= 0 /\ ins_index < bounded_expected_index
    THEN bounded_expected_index + 1
    ELSE bounded_expected_index

(* for candidate_index in range(successor_index, len(after_tracks)): ... *)
RECURSIVE SuccessorSetVideoId(_, _, _)
SuccessorSetVideoId(rows, candidate_index, ins_token) ==
    IF candidate_index >= Len(rows) THEN ""
    ELSE LET candidate_set_video_id == At(rows, candidate_index).setVideoId
         IN IF candidate_set_video_id # "" /\ candidate_set_video_id # ins_token
            THEN candidate_set_video_id
            ELSE SuccessorSetVideoId(rows, candidate_index + 1, ins_token)

BoundedExpectedIndex(expected, rows) == Min(expected, Len(rows) - 1)

(* Lines 490-553: everything between the poll loop and the reorder call.
   kind "return" carries the insertedIndex of the moved:false result; kind
   "move" carries the token pair of the reorder call. *)
InsertPlan(rows, scan, expected) ==
    LET useFallback == scan.inserted_set_video_id = "" /\ scan.fallback_set_video_id # ""
        ins_token == IF useFallback THEN scan.fallback_set_video_id
                     ELSE scan.inserted_set_video_id
        ins_index == IF useFallback THEN scan.fallback_index ELSE scan.inserted_index
        bounded_expected_index == BoundedExpectedIndex(expected, rows)
        successor_index == SuccessorIndex(ins_index, bounded_expected_index)
        successor_set_video_id == SuccessorSetVideoId(rows, successor_index, ins_token)
        base == [kind |-> "return", insertedIndex |-> expected,
                 inserted_set_video_id |-> ins_token, inserted_index |-> ins_index,
                 successor_set_video_id |-> ""]
    IN IF rows = <<>> THEN [base EXCEPT !.inserted_set_video_id = scan.inserted_set_video_id,
                                       !.inserted_index = scan.inserted_index]
       ELSE IF ins_token = "" THEN base
       ELSE IF ins_index = bounded_expected_index
       THEN [base EXCEPT !.insertedIndex = bounded_expected_index]
       ELSE IF successor_index >= Len(rows)
       THEN [base EXCEPT !.insertedIndex = Len(rows) - 1]
       ELSE IF successor_set_video_id = ""
       THEN [base EXCEPT !.insertedIndex = Len(rows) - 1]
       ELSE [base EXCEPT !.kind = "move", !.insertedIndex = bounded_expected_index,
                         !.successor_set_video_id = successor_set_video_id]

CurrentScan ==
    [inserted_set_video_id |-> inserted_set_video_id, inserted_index |-> inserted_index,
     fallback_set_video_id |-> fallback_set_video_id, fallback_index |-> fallback_index]

NoPolls == [everNonEmpty |-> FALSE, last |-> "none"]

InsertPayloads ==
    [playlistId : {JStr(" PL1 "), JNull},
     videoId : {JStr("v1"), JStr(" ")},
     expectedIndex : {JInt(n) : n \in 0..MaxIndex} \cup {JNull, JStr(" 2 "), JBool(TRUE)}]

InitCommon ==
    /\ result = NoResult
    /\ remotePrev = remote
    /\ nextTok = Len(remote) + 1
    /\ playlistDeleted = FALSE
    /\ calls = NoCalls
    /\ addReturned = NotCalled
    /\ editReturned = NotCalled
    /\ polls = NoPolls
    /\ before_set_video_ids = {}
    /\ after_tracks = <<>>
    /\ inserted_set_video_id = ""
    /\ inserted_index = 0 - 1
    /\ fallback_set_video_id = ""
    /\ fallback_index = 0 - 1
    /\ attempt = 0
    /\ moveItem = <<>>
    /\ tracks = <<>>
    /\ from_index = 0
    /\ final_index = 0
    /\ steps = 0
    /\ moved_set_video_id = ""
    /\ step = 0
    /\ index = 0
    /\ pending_migrations = <<>>
    /\ failed = <<>>
    /\ successful_migrations = <<>>
    /\ pending_index = 0
    /\ resolved = {}
    /\ appended = {}

InitInsert ==
    /\ pc = "insert"
    /\ payload \in InsertPayloads
    /\ remote \in Playlists
    /\ InitCommon

(* Lines 384-420: validation, the before-snapshot read, the before token set. *)
InsertBegin ==
    /\ pc = "insert"
    /\ IF playlist_id = "" \/ video_id = "" \/ expected_index = None
       THEN /\ result' = Error("invalid_input", 400)
            /\ pc' = "done"
            /\ UNCHANGED <<calls, before_set_video_ids>>
       ELSE \E read \in GetPlaylistResults :
            /\ calls' = Count("get")
            /\ IF read.kind = "raise"
               THEN /\ result' = Error("song_load_failed", 502)
                    /\ pc' = "done"
                    /\ UNCHANGED before_set_video_ids
               ELSE /\ before_set_video_ids' = BeforeSetVideoIds(SnapshotTracks(read))
                    /\ pc' = "insert_add"
                    /\ UNCHANGED result
    /\ UNCHANGED <<payload, migVars, envVars, addReturned, editReturned, polls, after_tracks,
                   inserted_set_video_id, inserted_index, fallback_set_video_id,
                   fallback_index, attempt, moveItem, moveVars>>

(* Lines 422-430: the append.  The returned value is not inspected. *)
InsertAdd ==
    /\ pc = "insert_add"
    /\ calls' = Count("add")
    /\ \E out \in {Raised} \cup RefusedResults \cup AppliedResults :
        /\ addReturned' = out
        /\ IF out \in AppliedResults
           THEN /\ remote' = Append(remote, Row(video_id, Tok(nextTok)))
                /\ remotePrev' = remote
                /\ nextTok' = nextTok + 1
                /\ UNCHANGED playlistDeleted
           ELSE UNCHANGED envVars
        /\ IF out = Raised
           THEN /\ result' = AddFailed
                /\ pc' = "done"
           ELSE /\ pc' = "insert_poll"
                /\ UNCHANGED result
    /\ UNCHANGED <<payload, migVars, editReturned, scanVars, moveItem, moveVars>>

(* Lines 438-488: one attempt of the poll loop, get_playlist having
   produced read. *)
InsertPolled(read) ==
    LET candidate == SnapshotTracks(read)
        scan == ScanAfterTracks(candidate, video_id, before_set_video_ids)
        found == scan.inserted_set_video_id # "" \/ scan.fallback_set_video_id # ""
        fatal == read.kind = "raise" /\ attempt >= LastAttempt
        break == read.kind # "raise" /\ candidate # <<>> /\ found
        sleeps == ~break /\ attempt < LastAttempt
    IN  /\ calls' = [calls EXCEPT !.get = @ + 1,
                                  !.sleep = @ + (IF sleeps THEN 1 ELSE 0)]
        /\ polls' = [everNonEmpty |-> polls.everNonEmpty \/ candidate # <<>>,
                     last |-> IF read.kind = "raise" THEN "raise" ELSE "snapshot"]
        /\ after_tracks' = IF read.kind = "raise" THEN after_tracks ELSE candidate
        /\ IF read.kind # "raise" /\ candidate # <<>>
           THEN /\ inserted_set_video_id' = scan.inserted_set_video_id
                /\ inserted_index' = scan.inserted_index
                /\ fallback_set_video_id' = scan.fallback_set_video_id
                /\ fallback_index' = scan.fallback_index
           ELSE UNCHANGED <<inserted_set_video_id, inserted_index,
                            fallback_set_video_id, fallback_index>>
        /\ attempt' = IF break \/ fatal THEN attempt ELSE attempt + 1
        /\ IF fatal
           THEN /\ result' = Error("song_load_failed", 502)
                /\ pc' = "done"
           ELSE /\ pc' = IF break \/ attempt + 1 >= PollAttempts
                         THEN "insert_plan" ELSE "insert_poll"
                /\ UNCHANGED result

(* Lines 438-488: one attempt of the poll loop. *)
InsertPoll ==
    /\ pc = "insert_poll"
    /\ \E read \in GetPlaylistResults : InsertPolled(read)
    /\ UNCHANGED <<payload, migVars, envVars, addReturned, editReturned, before_set_video_ids,
                   moveItem, moveVars>>

(* Lines 490-573: the plan and the single reorder call. *)
InsertMove ==
    /\ pc = "insert_plan"
    /\ LET plan == InsertPlan(after_tracks, CurrentScan, expected_index) IN
        /\ inserted_set_video_id' = plan.inserted_set_video_id
        /\ inserted_index' = plan.inserted_index
        /\ IF plan.kind = "return"
           THEN /\ result' = Ok([insertedIndex |-> plan.insertedIndex, moved |-> FALSE])
                /\ UNCHANGED <<calls, editReturned, moveItem, envVars>>
           ELSE /\ calls' = Count("edit")
                /\ moveItem' = <<plan.inserted_set_video_id, plan.successor_set_video_id>>
                /\ \E out \in {Raised} \cup RefusedResults \cup AppliedResults :
                    /\ editReturned' = out
                    /\ IF out \in AppliedResults
                       THEN /\ remote' = Reorder(remote, plan.inserted_set_video_id,
                                                 plan.successor_set_video_id)
                            /\ remotePrev' = remote
                            /\ UNCHANGED <<nextTok, playlistDeleted>>
                       ELSE UNCHANGED envVars
                    /\ result' = IF out = Raised
                                 THEN MoveFailed
                                 ELSE Ok([insertedIndex |-> plan.insertedIndex,
                                          moved |-> TRUE])
    /\ pc' = "done"
    /\ UNCHANGED <<payload, migVars, addReturned, polls, before_set_video_ids, after_tracks,
                   fallback_set_video_id, fallback_index, attempt, moveVars>>

NextInsert == InsertBegin \/ InsertAdd \/ InsertPoll \/ InsertMove

SpecInsert == InitInsert /\ [][NextInsert]_vars

-----------------------------------------------------------------------------
(* handle_move_playlist_song                                                *)

(* A Python list index: negative indices count from the end; IndexError
   outside -len..len-1. *)
PyIndex(seq, i) == IF i < 0 THEN Len(seq) + i ELSE i
InRange(seq, i) == PyIndex(seq, i) >= 0 /\ PyIndex(seq, i) < Len(seq)
PyAt(seq, i) == At(seq, PyIndex(seq, i))

(* value is JNull or a dict of two JSON fields; the result is None (JNull)
   or the dict of the non-blank stripped fields ("" for a field left out) *)
normalize_playlist_song_ref(value) ==
    IF value.t # "dict" THEN JNull
    ELSE LET set_video_id == safe_str(value.setVideoId)
             vid == safe_str(value.videoId)
         IN IF set_video_id = "" /\ vid = "" THEN JNull
            ELSE [t |-> "dict", setVideoId |-> set_video_id, videoId |-> vid]

(* for index, track in enumerate(tracks): the first row with the token *)
RECURSIVE FirstBySetVideoId(_, _, _)
FirstBySetVideoId(rows, row_index, target_set_video_id) ==
    IF row_index >= Len(rows) THEN None
    ELSE IF At(rows, row_index).setVideoId = target_set_video_id THEN row_index
    ELSE FirstBySetVideoId(rows, row_index + 1, target_set_video_id)

(* the first row with the video id that itself carries a token *)
RECURSIVE FirstByVideoId(_, _, _)
FirstByVideoId(rows, row_index, target_video_id) ==
    IF row_index >= Len(rows) THEN None
    ELSE IF At(rows, row_index).videoId = target_video_id /\ At(rows, row_index).setVideoId # ""
    THEN row_index
    ELSE FirstByVideoId(rows, row_index + 1, target_video_id)

(* Mutant of locate_playlist_song_index: the external identifier is tried
   before the position token. *)
LocateByVideoIdFirst(rows, song_ref) ==
    LET byToken == IF song_ref.setVideoId # ""
                   THEN FirstBySetVideoId(rows, 0, song_ref.setVideoId) ELSE None
        byVideo == IF song_ref.videoId # ""
                   THEN FirstByVideoId(rows, 0, song_ref.videoId) ELSE None
    IN IF byVideo # None THEN <<byVideo, At(rows, byVideo).setVideoId>>
       ELSE IF byToken # None THEN <<byToken, At(rows, byToken).setVideoId>>
       ELSE <<0 - 1, "">>

locate_playlist_song_index(rows, song_ref) ==
    LET target_set_video_id == song_ref.setVideoId
        target_video_id == song_ref.videoId
        byToken == IF target_set_video_id # ""
                   THEN FirstBySetVideoId(rows, 0, target_set_video_id) ELSE None
        byVideo == IF target_video_id # ""
                   THEN FirstByVideoId(rows, 0, target_video_id) ELSE None
    IN IF byToken # None THEN <<byToken, At(rows, byToken).setVideoId>>
       ELSE IF byVideo # None THEN <<byVideo, At(rows, byVideo).setVideoId>>
       ELSE <<0 - 1, "">>

raw_song == normalize_playlist_song_ref(payload.song)
direction == Lower(safe_str(payload.direction))

(* Mutant of positions: a step count of 0 is taken as 1. *)
PositionsZeroAsOne ==
    IF safe_non_negative_int(payload.positions) = 0 THEN 1
    ELSE safe_non_negative_int(payload.positions)

positions == safe_non_negative_int(payload.positions)

(* Mutant of MoveSteps: the step count is not clamped to the headroom. *)
MoveStepsUnclamped(dir, pos, current_index, n) == pos

(* steps = min(positions, current_index) / min(positions, len - 1 - current_index) *)
MoveSteps(dir, pos, current_index, n) ==
    IF dir = "up" THEN Min(pos, current_index) ELSE Min(pos, n - 1 - current_index)

SongRefs ==
    {JNull} \cup
    [t : {"dict"},
     setVideoId : {JNull, JStr("t9")} \cup {JStr(Tok(k)) : k \in 1..MaxRows},
     videoId : {JNull, JStr(" v1 "), JStr("v2")}]

MovePayloads ==
    [playlistId : {JStr(" PL1 ")}, song : SongRefs,
     direction : {JStr(" UP"), JStr("Down")},
     positions : {JInt(n) : n \in 1..MaxIndex}]
    \cup
    [playlistId : {JStr(" PL1 "), JNull}, song : {[t |-> "dict", setVideoId |-> JStr("t1"), videoId |-> JNull]},
     direction : {JStr(" UP"), JStr("left"), JNull},
     positions : {JInt(0), JInt(1), JInt(0 - 1), JNull, JStr(" 2 "), JStr("x"), JBool(TRUE)}]

InitMove ==
    /\ pc = "move"
    /\ payload \in MovePayloads
    /\ remote \in Playlists
    /\ InitCommon

MoveResult(moved, from, to) == Ok([moved |-> moved, fromIndex |-> from, toIndex |-> to])

(* Lines 577-648: validation, the snapshot read, the lookup, the clamp. *)
MoveBegin ==
    /\ pc = "move"
    /\ IF \/ playlist_id = ""
          \/ raw_song = JNull
          \/ direction \notin {"up", "down"}
          \/ positions = None
          \/ positions <= 0
       THEN /\ result' = Error("invalid_input", 400)
            /\ pc' = "done"
            /\ UNCHANGED <<calls, moveVars>>
       ELSE \E read \in GetPlaylistResults :
            LET rows == SnapshotTracks(read)
                located == locate_playlist_song_index(rows, raw_song)
                current_index == located[1]
                n_steps == MoveSteps(direction, positions, current_index, Len(rows))
            IN  /\ calls' = Count("get")
                /\ IF read.kind = "raise"
                   THEN /\ result' = Error("song_load_failed", 502)
                        /\ pc' = "done"
                        /\ UNCHANGED moveVars
                   ELSE /\ tracks' = rows
                        /\ step' = 0
                        /\ IF Len(rows) < 2
                           THEN /\ result' = MoveResult(FALSE, 0, 0)
                                /\ pc' = "done"
                                /\ UNCHANGED <<from_index, final_index, steps,
                                               moved_set_video_id>>
                           ELSE IF current_index < 0 \/ located[2] = ""
                           THEN /\ result' = Error("playlist_song_not_found", 404)
                                /\ pc' = "done"
                                /\ UNCHANGED <<from_index, final_index, steps,
                                               moved_set_video_id>>
                           ELSE /\ moved_set_video_id' = located[2]
                                /\ from_index' = current_index
                                /\ final_index' = current_index
                                /\ steps' = n_steps
                                /\ IF n_steps <= 0
                                   THEN /\ result' = MoveResult(FALSE, current_index,
                                                                current_index)
                                        /\ pc' = "done"
                                   ELSE /\ pc' = "move_step"
                                        /\ UNCHANGED result
    /\ UNCHANGED <<payload, migVars, envVars, addReturned, editReturned, scanVars, moveItem>>

(* Lines 650-714: one iteration of the step loop, and the return when the
   loop ends. *)
MoveStep ==
    /\ pc = "move_step"
    /\ LET neighbour_index == IF direction = "up" THEN final_index - 1 ELSE final_index + 1
       IN IF ~InRange(tracks, neighbour_index) \/ ~InRange(tracks, final_index)
          THEN \* IndexError: not caught anywhere
               /\ pc' = "crashed"
               /\ UNCHANGED <<result, calls, editReturned, moveItem, envVars, moveVars>>
          ELSE LET neighbour_set_video_id == PyAt(tracks, neighbour_index).setVideoId
                   pair == IF direction = "up"
                           THEN <<moved_set_video_id, neighbour_set_video_id>>
                           ELSE <<neighbour_set_video_id, moved_set_video_id>>
               IN IF neighbour_set_video_id = ""
                  THEN \* break
                       /\ result' = MoveResult(final_index # from_index, from_index,
                                               final_index)
                       /\ pc' = "done"
                       /\ UNCHANGED <<calls, editReturned, moveItem, envVars, moveVars>>
                  ELSE /\ calls' = Count("edit")
                       /\ moveItem' = pair
                       /\ \E out \in {Raised} \cup RefusedResults \cup AppliedResults :
                           /\ editReturned' = out
                           /\ IF out \in AppliedResults
                              THEN /\ remote' = Reorder(remote, pair[1], pair[2])
                                   /\ remotePrev' = remote
                                   /\ UNCHANGED <<nextTok, playlistDeleted>>
                              ELSE UNCHANGED envVars
                           /\ IF out = Raised
                              THEN /\ result' = MoveFailed
                                   /\ pc' = "done"
                                   /\ UNCHANGED moveVars
                              ELSE /\ tracks' = Swap(tracks, PyIndex(tracks, neighbour_index),
                                                     PyIndex(tracks, final_index))
                                   /\ final_index' = neighbour_index
                                   /\ step' = step + 1
                                   /\ UNCHANGED <<from_index, steps, moved_set_video_id>>
                                   /\ IF step + 1 >= steps
                                      THEN /\ result' = MoveResult(neighbour_index # from_index,
                                                                   from_index, neighbour_index)
                                           /\ pc' = "done"
                                      ELSE /\ pc' = "move_step"
                                           /\ UNCHANGED result
    /\ UNCHANGED <<payload, migVars, addReturned, scanVars>>

NextMove == MoveBegin \/ MoveStep

SpecMove == InitMove /\ [][NextMove]_vars

-----------------------------------------------------------------------------
(* Text (src/server/ytmusic_migrate.py).  A text is the sequence of the      *)
(* characters of a Python str; JText(chars) is a JSON string given so.       *)

JText(chars) == [t |-> "text", s |-> chars]

UpperCase == <<"A", "B", "C", "D", "E", "F", "G", "H", "I", "J", "K", "L", "M",
               "N", "O", "P", "Q", "R", "S", "T", "U", "V", "W", "X", "Y", "Z">>
LowerCase == <<"a", "b", "c", "d", "e", "f", "g", "h", "i", "j", "k", "l", "m",
               "n", "o", "p", "q", "r", "s", "t", "u", "v", "w", "x", "y", "z">>
Digits == {"0", "1", "2", "3", "4", "5", "6", "7", "8", "9"}

(* str.lower(), one character *)
LowerChar(ch) ==
    IF \E k \in 1..Len(UpperCase) : UpperCase[k] = ch
    THEN LowerCase[CHOOSE k \in 1..Len(UpperCase) : UpperCase[k] = ch]
    ELSE ch

(* [a-z0-9] *)
IsAlnum(ch) == ch \in Digits \/ \E k \in 1..Len(LowerCase) : LowerCase[k] = ch

IsSpace(ch) == ch \in {" ", "\t", "\n"}

RECURSIVE LStrip(_)
LStrip(chars) ==
    IF chars # <<>> /\ IsSpace(Head(chars)) THEN LStrip(Tail(chars)) ELSE chars

RECURSIVE RStrip(_)
RStrip(chars) ==
    IF chars # <<>> /\ IsSpace(chars[Len(chars)])
    THEN RStrip(SubSeq(chars, 1, Len(chars) - 1)) ELSE chars

(* str.strip() *)
TextStrip(chars) == RStrip(LStrip(chars))

(* safe_str on a text field: value.strip() if isinstance(value, str) else "" *)
safe_text(value) == IF value.t = "text" THEN TextStrip(value.s) ELSE <<>>

(* re.sub(r"[^a-z0-9]+", " ", value.lower()) *)
RECURSIVE SubNonAlnum(_, _)
SubNonAlnum(chars, inRun) ==
    IF chars = <<>> THEN <<>>
    ELSE LET ch == LowerChar(Head(chars)) IN
         IF IsAlnum(ch) THEN <<ch>> \o SubNonAlnum(Tail(chars), FALSE)
         ELSE IF inRun THEN SubNonAlnum(Tail(chars), TRUE)
         ELSE <<" ">> \o SubNonAlnum(Tail(chars), TRUE)

(* cleaned.split(): the maximal runs of non-whitespace characters *)
RECURSIVE SplitWhitespace(_, _)
SplitWhitespace(chars, word) ==
    IF chars = <<>> THEN (IF word = <<>> THEN <<>> ELSE <<word>>)
    ELSE IF IsSpace(Head(chars))
    THEN (IF word = <<>> THEN <<>> ELSE <<word>>) \o SplitWhitespace(Tail(chars), <<>>)
    ELSE SplitWhitespace(Tail(chars), Append(word, Head(chars)))

(* sep.join(words) *)
RECURSIVE Join(_, _)
Join(words, sep) ==
    IF words = <<>> THEN <<>>
    ELSE IF Len(words) = 1 THEN words[1]
    ELSE words[1] \o sep \o Join(Tail(words), sep)

(* Mutant of normalize: the runs are replaced but the text is not split and
   joined again. *)
NormalizeWithoutTrim(value) == SubNonAlnum(value, FALSE)

normalize(value) == Join(SplitWhitespace(SubNonAlnum(value, FALSE), <<>>), <<" ">>)

(* a in b, for two str *)
IsSubstring(a, b) ==
    \E k \in 0..(Len(b) - Len(a)) : SubSeq(b, k + 1, k + Len(a)) = a

(* artist.split(" "): the pieces between single spaces, empty ones included *)
RECURSIVE SplitOnSpace(_, _)
SplitOnSpace(chars, word) ==
    IF chars = <<>> THEN <<word>>
    ELSE IF Head(chars) = " "
    THEN <<word>> \o SplitOnSpace(Tail(chars), <<>>)
    ELSE SplitOnSpace(Tail(chars), Append(word, Head(chars)))

-----------------------------------------------------------------------------
(* MatchScorer.  A search result is a record                                 *)
(*   [title, artists, artist, album, videoId]:                               *)
(* title, artist and album are texts (<<>> when absent), artists is the list *)
(* of the names of its artist entries, videoId is "" when absent.            *)

RECURSIVE NonBlankNames(_)
NonBlankNames(artists) ==
    IF artists = <<>> THEN <<>>
    ELSE LET name == TextStrip(Head(artists)) IN
         IF name # <<>> THEN <<name>> \o NonBlankNames(Tail(artists))
         ELSE NonBlankNames(Tail(artists))

extract_artist_text(search_result) ==
    LET names == NonBlankNames(search_result.artists) IN
    IF names # <<>> THEN Join(names, <<",", " ">>)
    ELSE TextStrip(search_result.artist)

(* any(token and token in result_artists for token in artist.split(" ")) *)
AnyTokenIn(artist, result_artists) ==
    LET tokens == SplitOnSpace(artist, <<>>) IN
    \E k \in 1..Len(tokens) : tokens[k] # <<>> /\ IsSubstring(tokens[k], result_artists)

score_search_result(search_result, target_title, target_artist) ==
    LET result_title == normalize(TextStrip(search_result.title))
        result_artists == normalize(extract_artist_text(search_result))
        title == normalize(target_title)
        artist == normalize(target_artist)
        titleScore == IF title # <<>> /\ result_title = title THEN 8
                      ELSE IF title # <<>> /\ IsSubstring(title, result_title) THEN 5
                      ELSE 0
        artistScore == IF artist # <<>> /\ result_artists = artist THEN 5
                       ELSE IF artist # <<>> /\ IsSubstring(artist, result_artists) THEN 3
                       ELSE IF artist # <<>> /\ AnyTokenIn(artist, result_artists) THEN 1
                       ELSE 0
        idScore == IF search_result.videoId # "" THEN 2 ELSE 0
    IN titleScore + artistScore + idScore

artist_match_level(search_result, target_artist) ==
    LET artist == normalize(target_artist)
        result_artists == normalize(extract_artist_text(search_result))
    IN IF artist = <<>> THEN 0
       ELSE IF result_artists = <<>> THEN 0
       ELSE IF result_artists = artist THEN 3
       ELSE IF IsSubstring(artist, result_artists) THEN 2
       ELSE IF AnyTokenIn(artist, result_artists) THEN 1
       ELSE 0

album_match_level(search_result, target_album) ==
    LET album == normalize(target_album)
        result_album == normalize(TextStrip(search_result.album))
    IN IF album = <<>> THEN 0
       ELSE IF result_album = <<>> THEN 0
       ELSE IF result_album = album THEN 2
       ELSE IF IsSubstring(album, result_album) THEN 1
       ELSE 0

total_score(item, title, artist, album) ==
    score_search_result(item, title, artist) + album_match_level(item, album) * 4

RECURSIVE Filter(_, _, _)
(* [result for result in results if keep] with keep: "id" a non-blank
   videoId, "artist" an artist match level > 0 *)
Filter(results, keep, artist) ==
    IF results = <<>> THEN <<>>
    ELSE LET r == Head(results)
             ok == IF keep = "id" THEN r.videoId # ""
                   ELSE artist_match_level(r, artist) > 0
         IN (IF ok THEN <<r>> ELSE <<>>) \o Filter(Tail(results), keep, artist)

(* Mutant of MaxByScore: the last of the maximal items. *)
LastMaxByScore(valid_results, title, artist, album) ==
    LET best == CHOOSE k \in 1..Len(valid_results) :
                  /\ \A j \in 1..Len(valid_results) :
                        total_score(valid_results[j], title, artist, album)
                          <= total_score(valid_results[k], title, artist, album)
                  /\ \A j \in (k + 1)..Len(valid_results) :
                        total_score(valid_results[j], title, artist, album)
                          < total_score(valid_results[k], title, artist, album)
    IN valid_results[best]

(* max(valid_results, key=total_score): the first of the maximal items *)
MaxByScore(valid_results, title, artist, album) ==
    LET best == CHOOSE k \in 1..Len(valid_results) :
                  /\ \A j \in 1..Len(valid_results) :
                        total_score(valid_results[j], title, artist, album)
                          <= total_score(valid_results[k], title, artist, album)
                  /\ \A j \in 1..(k - 1) :
                        total_score(valid_results[j], title, artist, album)
                          < total_score(valid_results[k], title, artist, album)
    IN valid_results[best]

NoMatch == [title |-> <<>>, artists |-> <<>>, artist |-> <<>>, album |-> <<>>,
            videoId |-> "", none |-> TRUE]

(* Mutant of pick_best_match: the artist filter only decides between a
   result and none; the best of all identifier-carrying candidates is
   returned. *)
PickWithoutArtistFilter(results, title, artist, album, require_artist_match) ==
    LET valid_results == Filter(results, "id", artist)
        artist_filtered == Filter(valid_results, "artist", artist)
    IN IF valid_results = <<>> THEN NoMatch
       ELSE IF artist # <<>> /\ artist_filtered = <<>> /\ require_artist_match
       THEN NoMatch
       ELSE MaxByScore(valid_results, title, artist, album)

(* Mutant of pick_best_match: candidates without a videoId are kept. *)
PickKeepingBlankIds(results, title, artist, album, require_artist_match) ==
    LET valid_results == results
        artist_filtered == Filter(valid_results, "artist", artist)
    IN IF valid_results = <<>> THEN NoMatch
       ELSE IF artist # <<>> /\ artist_filtered # <<>>
       THEN MaxByScore(artist_filtered, title, artist, album)
       ELSE IF artist # <<>> /\ require_artist_match THEN NoMatch
       ELSE MaxByScore(valid_results, title, artist, album)

(* Mutant of pick_best_match: the flag is ignored and the unfiltered
   candidates are always the fallback. *)
PickNeverRequiringArtist(results, title, artist, album, require_artist_match) ==
    LET valid_results == Filter(results, "id", artist)
        artist_filtered == Filter(valid_results, "artist", artist)
    IN IF valid_results = <<>> THEN NoMatch
       ELSE IF artist # <<>> /\ artist_filtered # <<>>
       THEN MaxByScore(artist_filtered, title, artist, album)
       ELSE MaxByScore(valid_results, title, artist, album)

(* returns NoMatch for Python's None *)
pick_best_match(results, title, artist, album, require_artist_match) ==
    LET valid_results == Filter(results, "id", artist)
        artist_filtered == Filter(valid_results, "artist", artist)
    IN IF valid_results = <<>> THEN NoMatch
       ELSE IF artist # <<>> /\ artist_filtered # <<>>
       THEN MaxByScore(artist_filtered, title, artist, album)
       ELSE IF artist # <<>> /\ require_artist_match THEN NoMatch
       ELSE MaxByScore(valid_results, title, artist, album)

-----------------------------------------------------------------------------
(* migrate_songs.  The debug trace (debug_searches) is left out: nothing     *)
(* reads it but the final result.                                            *)

MaxSongs == 2           \* songs of a migration request

is_truthy(value) ==
    IF value.t = "bool" THEN value.b
    ELSE IF value.t = "str" THEN Lower(Strip(value.s)) \in {"1", "true", "yes", "on"}
    ELSE IF value.t = "int" THEN value.n # 0
    ELSE FALSE

songs == payload.songs.items
preserve_position == is_truthy(payload.preservePosition)

(* The catalog the searches draw from. *)
Candidate(title, artists, vid) ==
    [title |-> title, artists |-> artists, artist |-> <<>>, album |-> <<>>,
     videoId |-> vid]
CandidateLists ==
    LET exact == Candidate(<<"a", "b">>, << <<"Q">> >>, "v1")
        other == Candidate(<<"a", "b", " ", "c">>, << <<"X">> >>, "v2")
        noId == Candidate(<<"a", "b">>, << <<"q">> >>, "")
    IN { <<>>, <<exact>>, <<other>>, <<noId, other, exact>> }

SearchRaise == [kind |-> "raise", results |-> <<>>]
SearchNotList == [kind |-> "notlist", results |-> <<>>]
SearchOutcomes ==
    {SearchRaise, SearchNotList} \cup
    { [kind |-> "list", results |-> l] : l \in CandidateLists }

SongDict(songKey, title, artist, album, expectedIndex) ==
    [t |-> "dict", songKey |-> songKey, title |-> title, artist |-> artist,
     album |-> album, expectedIndex |-> expectedIndex]

SongKinds ==
    { JStr("x"),
      SongDict(JNull, JText(<<" ">>), JText(<<"Q">>), JNull, JInt(0)),
      SongDict(JStr("k1"), JText(<<"A", "b">>), JText(<<"Q">>), JNull, JInt(0)),
      SongDict(JNull, JText(<<" ", "a", "b">>), JText(<<"q">>), JText(<<"z">>), JNull) }

RECURSIVE SongLists(_)
SongLists(n) ==
    IF n = 0 THEN { <<>> }
    ELSE SongLists(n - 1) \cup
         { Append(l, k) : l \in { x \in SongLists(n - 1) : Len(x) = n - 1 },
                          k \in SongKinds }

(* Requests with a song whose title is absent, or blank under a songKey of
   the caller. *)
BlankTitleSongLists ==
    LET keyed == SongDict(JStr("k1"), JText(<<" ", " ">>), JText(<<"Q">>), JNull, JNull)
        absent == SongDict(JNull, JNull, JText(<<"Q">>), JNull, JInt(0))
        plain == SongDict(JStr(" k2 "), JText(<<"a", "b">>), JText(<<"Q">>), JNull, JNull)
    IN { <<keyed>>, <<plain, keyed>>, <<absent, plain>> }

MigratePayloads ==
    [playlistId : {JStr(" PL1 ")},
     songs : { [t |-> "list", items |-> l] : l \in SongLists(MaxSongs) \ { <<>> } },
     preservePosition : {JStr(" YES "), JInt(0)}]
    \cup
    [playlistId : {JStr(" PL1 ")},
     songs : { [t |-> "list", items |-> l] : l \in BlankTitleSongLists },
     preservePosition : {JInt(0)}]
    \cup
    [playlistId : {JStr(" PL1 "), JNull},
     songs : {JNull, [t |-> "list", items |-> <<>>], [t |-> "list", items |-> <<JStr("x")>>]},
     preservePosition : {JNull}]

MigratePlaylists == { <<>>, <<Row("v1", "t1")>>, <<Row("v2", "")>> }

InitMigrate ==
    /\ pc = "migrate"
    /\ payload \in MigratePayloads
    /\ remote \in MigratePlaylists
    /\ InitCommon

(* Mutant of DefaultSongKey: the default key counts the songs from 1. *)
DefaultSongKeyFromOne(i) == "song-" \o ToString(i + 1)

(* f"song-{index}" *)
DefaultSongKey(i) == "song-" \o ToString(i)

song_key_of(song, i) ==
    IF safe_str(song.songKey) # "" THEN safe_str(song.songKey) ELSE DefaultSongKey(i)

(* queries = [query] (+ the album variant) *)
Queries(title, artist, album) ==
    LET query == TextStrip(artist \o <<" ">> \o title)
    IN IF album # <<>>
       THEN <<query, TextStrip(artist \o <<" ">> \o title \o <<" ">> \o album)>>
       ELSE <<query>>

SeenVideoIds(merged) == { merged[k].videoId : k \in 1..Len(merged) }

(* Mutant of MergeVariant: a later result replaces the kept result of the
   same videoId. *)
RECURSIVE MergeVariantLastWins(_, _)
MergeVariantLastWins(variant_results, merged) ==
    IF variant_results = <<>> THEN merged
    ELSE LET r == Head(variant_results) IN
         IF r.videoId = "" THEN MergeVariantLastWins(Tail(variant_results), merged)
         ELSE IF r.videoId \in SeenVideoIds(merged)
         THEN MergeVariantLastWins(Tail(variant_results),
                  [k \in 1..Len(merged) |->
                      IF merged[k].videoId = r.videoId THEN r ELSE merged[k]])
         ELSE MergeVariantLastWins(Tail(variant_results), Append(merged, r))

(* for result in variant_results: ... merged_results.append(result) *)
RECURSIVE MergeVariant(_, _)
MergeVariant(variant_results, merged) ==
    IF variant_results = <<>> THEN merged
    ELSE LET r == Head(variant_results) IN
         IF r.videoId = "" \/ r.videoId \in SeenVideoIds(merged)
         THEN MergeVariant(Tail(variant_results), merged)
         ELSE MergeVariant(Tail(variant_results), Append(merged, r))

(* for query_variant in queries: ... ; a variant that is not a list is
   skipped *)
RECURSIVE MergeResults(_, _)
MergeResults(outcomes, merged) ==
    IF outcomes = <<>> THEN merged
    ELSE MergeResults(Tail(outcomes),
                      IF Head(outcomes).kind = "list"
                      THEN MergeVariant(Head(outcomes).results, merged)
                      ELSE merged)

(* the 1-based position of the first search that raises, 0 when none does *)
FirstRaise(outcomes) ==
    IF \E k \in 1..Len(outcomes) : outcomes[k].kind = "raise"
    THEN CHOOSE k \in 1..Len(outcomes) :
            /\ outcomes[k].kind = "raise"
            /\ \A j \in 1..(k - 1) : outcomes[j].kind # "raise"
    ELSE 0

ReturnedBeforeRaise(outcomes) ==
    IF FirstRaise(outcomes) = 0 THEN outcomes
    ELSE SubSeq(outcomes, 1, FirstRaise(outcomes) - 1)

SearchCalls(outcomes) ==
    IF FirstRaise(outcomes) = 0 THEN Len(outcomes) ELSE FirstRaise(outcomes)

(* the entries of failed; idx is the input index the entry is about *)
FailedNotObject(i) ==
    [songKey |-> DefaultSongKey(i), error |-> "Song payload must be an object.", idx |-> i]
FailedSong(key, title, artist, album, error, i) ==
    [songKey |-> key, title |-> title, artist |-> artist, album |-> album,
     error |-> error, idx |-> i]
FailedPending(song, error) ==
    FailedSong(song.songKey, song.title, song.artist, song.album, error, song.idx)

PendingSong(key, title, artist, album, expected, best_match, i) ==
    [songKey |-> key, title |-> title, artist |-> artist, album |-> album,
     expectedIndex |-> expected, videoId |-> best_match.videoId,
     matchedTitle |-> TextStrip(best_match.title),
     matchedArtists |-> extract_artist_text(best_match), idx |-> i]

(* Mutant of ContinueWithNextSong: a failed song ends the loop. *)
BreakAtFailedSong(i, n) == n

(* continue, after a song was recorded in failed: the loop goes on with the
   next song of the n *)
ContinueWithNextSong(i, n) == i + 1

(* where control goes after song i is settled with the pending list p *)
AfterSong(next, p) ==
    IF next < Len(songs) THEN "mig_search"
    ELSE IF p = <<>> THEN "mig_return"
    ELSE IF preserve_position THEN "mig_before"
    ELSE "mig_append"

(* The process environment of a request: whether ytmusicapi can be imported,
   the value of YTMUSIC_AUTH_FILE ("" when it is unset), whether the file it
   names exists, and whether the constructor accepts the file. *)
Environments ==
    [importable : BOOLEAN, YTMUSIC_AUTH_FILE : {"", " ", "auth.json"},
     file_exists : BOOLEAN, constructs : BOOLEAN]

(* Lines 212-253 in the environment env: the import, the auth file, the
   batch-level validation and the client construction, in this order. *)
MigrateBegun(env) ==
    IF ~env.importable
    THEN result' = Error("missing_dependency", 500) /\ pc' = "done"
    ELSE IF Strip(env.YTMUSIC_AUTH_FILE) = ""
    THEN result' = Error("missing_auth_file", 500) /\ pc' = "done"
    ELSE IF ~env.file_exists
    THEN result' = Error("missing_auth_file", 400) /\ pc' = "done"
    ELSE IF playlist_id = "" \/ payload.songs.t # "list" \/ payload.songs.items = <<>>
    THEN result' = Error("invalid_input", 400) /\ pc' = "done"
    ELSE IF ~env.constructs
    THEN result' = Error("auth_init_failed", 400) /\ pc' = "done"
    ELSE pc' = "mig_search" /\ UNCHANGED result

(* Lines 212-262: the environment checks, the batch-level validation and the
   client construction. *)
MigrateBegin ==
    /\ pc = "migrate"
    /\ \E env \in Environments : MigrateBegun(env)
    /\ UNCHANGED <<payload, envVars, calls, addReturned, editReturned, scanVars,
                   moveItem, moveVars, migVars>>

(* Lines 420-444: the match is queued, or failed when it has no videoId. *)
Resolve(song, i, best_match) ==
    LET title == safe_text(song.title)
        artist == safe_text(song.artist)
        album == safe_text(song.album)
        key == song_key_of(song, i)
    IN IF best_match.videoId = ""
       THEN /\ failed' = Append(failed, FailedSong(key, title, artist, album,
                                   "Search result did not include a videoId.", i))
            /\ index' = ContinueWithNextSong(i, Len(songs))
            /\ pc' = AfterSong(index', pending_migrations)
            /\ UNCHANGED <<pending_migrations, resolved>>
       ELSE /\ pending_migrations' =
                 Append(pending_migrations,
                        PendingSong(key, title, artist, album,
                                    safe_non_negative_int(song.expectedIndex),
                                    best_match, i))
            /\ resolved' = resolved \cup {i}
            /\ index' = i + 1
            /\ pc' = AfterSong(index', pending_migrations')
            /\ UNCHANGED failed

Fail(entry) ==
    /\ failed' = Append(failed, entry)
    /\ index' = ContinueWithNextSong(index, Len(songs))
    /\ pc' = AfterSong(index', pending_migrations)
    /\ UNCHANGED <<pending_migrations, resolved>>

(* Lines 300-353: the "songs" searches of song i, which returned or raised
   as outcomes says, and the scorer with an artist match required. *)
SongsSearched(i, outcomes) ==
    LET song == At(songs, i)
        title == safe_text(song.title)
        artist == safe_text(song.artist)
        album == safe_text(song.album)
        key == song_key_of(song, i)
        merged_results == MergeResults(outcomes, <<>>)
        best_match == pick_best_match(merged_results, title, artist, album, TRUE)
    IN  /\ calls' = [NoCalls EXCEPT !.search = SearchCalls(outcomes)]
        /\ IF FirstRaise(outcomes) # 0
           THEN Fail(FailedSong(key, title, artist, album, "Search failed: exc", i))
           ELSE IF best_match = NoMatch
           THEN /\ pc' = "mig_videos"
                /\ UNCHANGED <<index, pending_migrations, failed, resolved>>
           ELSE Resolve(song, i, best_match)

(* Mutant of video_require_artist_match: the fallback requires an artist
   match as the first selection does. *)
VideoFallbackRequiresArtist == TRUE

(* Lines 400-406: require_artist_match=False *)
video_require_artist_match == FALSE

(* Lines 354-418: the "videos" searches of song i; a raising search is
   swallowed and the results gathered before it are scored. *)
VideosSearched(i, outcomes) ==
    LET song == At(songs, i)
        title == safe_text(song.title)
        artist == safe_text(song.artist)
        album == safe_text(song.album)
        key == song_key_of(song, i)
        video_results == MergeResults(ReturnedBeforeRaise(outcomes), <<>>)
        best_match == pick_best_match(video_results, title, artist, album,
                                      video_require_artist_match)
    IN  /\ calls' = [calls EXCEPT !.search = @ + SearchCalls(outcomes)]
        /\ IF best_match = NoMatch
           THEN Fail(FailedSong(key, title, artist, album,
                                "No matching song found on YouTube Music.", i))
           ELSE Resolve(song, i, best_match)

(* the queries of song i: the query, and the query with the album *)
SongQueries(i) ==
    Queries(safe_text(At(songs, i).title), safe_text(At(songs, i).artist),
            safe_text(At(songs, i).album))

(* Lines 264-353: one song of the input: validation, the "songs" searches,
   the scorer with an artist match required. *)
MigrateSearchSongs ==
    /\ pc = "mig_search"
    /\ LET song == At(songs, index) IN
       IF song.t # "dict"
       THEN Fail(FailedNotObject(index)) /\ calls' = NoCalls
       ELSE IF safe_text(song.title) = <<>>
       THEN /\ Fail(FailedSong(song_key_of(song, index), safe_text(song.title),
                               safe_text(song.artist), safe_text(song.album),
                               "Song title is required.", index))
            /\ calls' = NoCalls
       ELSE \E outcomes \in [1..Len(SongQueries(index)) -> SearchOutcomes] :
               SongsSearched(index, outcomes)
    /\ UNCHANGED <<payload, result, envVars, addReturned, editReturned, scanVars,
                   moveItem, moveVars, successful_migrations, pending_index, appended>>

(* Lines 354-418: the "videos" fallback searches, with no artist match
   required. *)
MigrateSearchVideos ==
    /\ pc = "mig_videos"
    /\ \E outcomes \in [1..Len(SongQueries(index)) -> SearchOutcomes] :
           VideosSearched(index, outcomes)
    /\ UNCHANGED <<payload, result, envVars, addReturned, editReturned, scanVars,
                   moveItem, moveVars, successful_migrations, pending_index, appended>>

(* The values the model lets a mutation return to migrate_songs, which
   inspects none of them. *)
MigrateMutationOutcomes == {Raised, PyFalse, PyNone}

RECURSIVE AppendRows(_, _, _)
(* the playlist after the service appended the video ids, first token n *)
AppendRows(rows, video_ids, n) ==
    IF video_ids = <<>> THEN rows
    ELSE AppendRows(Append(rows, Row(Head(video_ids), Tok(n))), Tail(video_ids), n + 1)

BulkFailureMessage == "Failed to add songs to playlist: exc"

(* Mutant of BulkFailure: the failures of the bulk call replace the list. *)
BulkFailureOverwrites(f, pending) ==
    [k \in 1..Len(pending) |-> FailedPending(pending[k], BulkFailureMessage)]

(* Mutant of BulkFailure: every pending song is recorded twice. *)
BulkFailureTwice(f, pending) ==
    f \o [k \in 1..Len(pending) |-> FailedPending(pending[k], BulkFailureMessage)]
      \o [k \in 1..Len(pending) |-> FailedPending(pending[k], BulkFailureMessage)]

(* Lines 622-633: every pending song is appended to failed. *)
BulkFailure(f, pending) ==
    f \o [k \in 1..Len(pending) |-> FailedPending(pending[k], BulkFailureMessage)]

(* Lines 448-456 and 622-635: the single bulk append of the append-only
   mode. *)
MigrateAppendAll ==
    /\ pc = "mig_append"
    /\ calls' = [NoCalls EXCEPT !.add = 1]
    /\ \E out \in MigrateMutationOutcomes :
        /\ addReturned' = out
        /\ IF out = Raised
           THEN /\ failed' = BulkFailure(failed, pending_migrations)
                /\ pending_migrations' = <<>>
                /\ successful_migrations' = <<>>
           ELSE /\ successful_migrations' = pending_migrations
                /\ UNCHANGED <<failed, pending_migrations>>
        /\ IF out \in AppliedResults
           THEN /\ remote' = AppendRows(remote,
                                [k \in 1..Len(pending_migrations) |->
                                    pending_migrations[k].videoId], nextTok)
                /\ remotePrev' = remote
                /\ nextTok' = nextTok + Len(pending_migrations)
                /\ UNCHANGED playlistDeleted
           ELSE UNCHANGED envVars
    /\ pc' = "mig_return"
    /\ UNCHANGED <<payload, result, editReturned, scanVars, moveItem, moveVars, index,
                   pending_index, resolved, appended>>

(* Mutant of AfterPending: the next pending song is appended without a
   before-snapshot read of its own. *)
AppendWithoutBeforeRead(next) ==
    IF next < Len(pending_migrations) THEN "mig_add" ELSE "mig_return"

(* for song in pending_migrations: the next iteration, or the end of the loop *)
AfterPending(next) ==
    IF next < Len(pending_migrations) THEN "mig_before" ELSE "mig_return"

(* Lines 460-477: the before-snapshot of one pending song; a raising read
   leaves the before-set empty. *)
MigrateBefore ==
    /\ pc = "mig_before"
    /\ \E read \in GetPlaylistResults :
        before_set_video_ids' = IF read.kind = "raise" THEN {}
                                ELSE BeforeSetVideoIds(SnapshotTracks(read))
    /\ calls' = [NoCalls EXCEPT !.get = 1]
    /\ pc' = "mig_add"
    /\ UNCHANGED <<payload, result, envVars, addReturned, editReturned, polls,
                   after_tracks, inserted_set_video_id, inserted_index,
                   fallback_set_video_id, fallback_index, attempt, moveItem,
                   moveVars, migVars>>

(* Lines 479-501 and 611-621: the single-item append of one pending song. *)
MigrateAdd ==
    /\ pc = "mig_add"
    /\ calls' = Count("add")
    /\ LET song == At(pending_migrations, pending_index)
           expected == safe_non_negative_int(
                          IF song.expectedIndex = None THEN JNull
                          ELSE JInt(song.expectedIndex))
       IN \E out \in MigrateMutationOutcomes :
            /\ addReturned' = out
            /\ IF out \in AppliedResults
               THEN /\ remote' = Append(remote, Row(song.videoId, Tok(nextTok)))
                    /\ remotePrev' = remote
                    /\ nextTok' = nextTok + 1
                    /\ UNCHANGED playlistDeleted
               ELSE UNCHANGED envVars
            /\ IF out = Raised
               THEN /\ failed' = Append(failed,
                          FailedPending(song, "Failed to add song to playlist: exc"))
                    /\ pending_index' = pending_index + 1
                    /\ pc' = AfterPending(pending_index')
                    /\ UNCHANGED <<successful_migrations, appended, after_tracks,
                                   inserted_set_video_id, inserted_index,
                                   fallback_set_video_id, fallback_index, attempt>>
               ELSE /\ successful_migrations' = Append(successful_migrations, song)
                    /\ appended' = appended \cup {song.idx}
                    /\ UNCHANGED failed
                    /\ IF expected = None
                       THEN /\ pending_index' = pending_index + 1
                            /\ pc' = AfterPending(pending_index')
                            /\ UNCHANGED <<after_tracks, inserted_set_video_id,
                                           inserted_index, fallback_set_video_id,
                                           fallback_index, attempt>>
                       ELSE /\ inserted_set_video_id' = ""
                            /\ inserted_index' = 0 - 1
                            /\ fallback_set_video_id' = ""
                            /\ fallback_index' = 0 - 1
                            /\ after_tracks' = <<>>
                            /\ attempt' = 0
                            /\ pc' = "mig_poll"
                            /\ UNCHANGED pending_index
    /\ UNCHANGED <<payload, result, editReturned, polls, before_set_video_ids,
                   moveItem, moveVars, index, pending_migrations, resolved>>

(* Mutant of OnPositioningError: the exception of the positioning step
   reaches the handler of the append. *)
PositioningErrorRecorded(f, song) ==
    Append(f, FailedPending(song, "Failed to add song to playlist: exc"))

(* Lines 609-610: except Exception: continue *)
OnPositioningError(f, song) == f

(* for track_index in range(len(after_tracks) - 1, -1, -1): (lines 526-548) *)
RECURSIVE MigrateScanFrom(_, _, _, _, _)
MigrateScanFrom(rows, vid, before, track_index, acc) ==
    IF track_index < 0 THEN acc
    ELSE LET track == At(rows, track_index)
             track_video_id == track.videoId
             track_set_video_id == track.setVideoId
         IN IF track_video_id # vid
            THEN MigrateScanFrom(rows, vid, before, track_index - 1, acc)
            ELSE IF track_set_video_id # "" /\ track_set_video_id \notin before
            THEN [acc EXCEPT !.inserted_set_video_id = track_set_video_id,
                             !.inserted_index = track_index]
            ELSE IF track_set_video_id # "" /\ acc.fallback_set_video_id = ""
            THEN MigrateScanFrom(rows, vid, before, track_index - 1,
                          [acc EXCEPT !.fallback_set_video_id = track_set_video_id,
                                      !.fallback_index = track_index])
            ELSE MigrateScanFrom(rows, vid, before, track_index - 1, acc)

MigrateScan(rows, vid, before) ==
    MigrateScanFrom(rows, vid, before, Len(rows) - 1, NoScan)

(* Mutant of MigrateSuccessor: the token of the inserted row is not skipped. *)
RECURSIVE MigrateSuccessorAnyToken(_, _, _)
MigrateSuccessorAnyToken(rows, candidate_index, ins_token) ==
    IF candidate_index >= Len(rows) THEN ""
    ELSE IF At(rows, candidate_index).setVideoId # ""
    THEN At(rows, candidate_index).setVideoId
    ELSE MigrateSuccessorAnyToken(rows, candidate_index + 1, ins_token)

(* for candidate_index in range(successor_index, len(after_tracks)):
   (lines 582-597) *)
RECURSIVE MigrateSuccessor(_, _, _)
MigrateSuccessor(rows, candidate_index, ins_token) ==
    IF candidate_index >= Len(rows) THEN ""
    ELSE LET candidate_set_video_id == At(rows, candidate_index).setVideoId
         IN IF candidate_set_video_id # "" /\ candidate_set_video_id # ins_token
            THEN candidate_set_video_id
            ELSE MigrateSuccessor(rows, candidate_index + 1, ins_token)

(* Lines 555-600: kind "continue" leaves the song where it is, kind "move"
   carries the token pair of the reorder call. *)
MigratePlan(rows, scan, expected) ==
    LET useFallback == scan.inserted_set_video_id = "" /\ scan.fallback_set_video_id # ""
        ins_token == IF useFallback THEN scan.fallback_set_video_id
                     ELSE scan.inserted_set_video_id
        ins_index == IF useFallback THEN scan.fallback_index ELSE scan.inserted_index
        bounded_expected_index == Min(expected, Len(rows) - 1)
        successor_index == IF ins_index >= 0 /\ ins_index < bounded_expected_index
                           THEN bounded_expected_index + 1
                           ELSE bounded_expected_index
        successor_set_video_id == MigrateSuccessor(rows, successor_index, ins_token)
        base == [kind |-> "continue", inserted_set_video_id |-> ins_token,
                 inserted_index |-> ins_index, successor_set_video_id |-> ""]
    IN IF rows = <<>> THEN [base EXCEPT !.inserted_set_video_id = scan.inserted_set_video_id,
                                       !.inserted_index = scan.inserted_index]
       ELSE IF ins_token = "" THEN base
       ELSE IF ins_index = bounded_expected_index THEN base
       ELSE IF successor_index >= Len(rows) THEN base
       ELSE IF successor_set_video_id = "" THEN base
       ELSE [base EXCEPT !.kind = "move",
                         !.successor_set_video_id = successor_set_video_id]

(* Lines 502-553: one attempt of the poll loop of the pending song,
   get_playlist having produced read; a raising read ends the positioning of
   the song. *)
MigratePolled(read) ==
    LET song == At(pending_migrations, pending_index)
        candidate == SnapshotTracks(read)
        scan == MigrateScan(candidate, song.videoId, before_set_video_ids)
        found == scan.inserted_set_video_id # "" \/ scan.fallback_set_video_id # ""
        raised == read.kind = "raise"
        break == ~raised /\ candidate # <<>> /\ found
        sleeps == ~raised /\ ~break /\ attempt < LastAttempt
    IN  /\ calls' = [calls EXCEPT !.get = @ + 1,
                                  !.sleep = @ + (IF sleeps THEN 1 ELSE 0)]
        /\ after_tracks' = IF raised THEN after_tracks ELSE candidate
        /\ IF ~raised /\ candidate # <<>>
           THEN /\ inserted_set_video_id' = scan.inserted_set_video_id
                /\ inserted_index' = scan.inserted_index
                /\ fallback_set_video_id' = scan.fallback_set_video_id
                /\ fallback_index' = scan.fallback_index
           ELSE UNCHANGED <<inserted_set_video_id, inserted_index,
                            fallback_set_video_id, fallback_index>>
        /\ attempt' = IF break \/ raised THEN attempt ELSE attempt + 1
        /\ IF raised
           THEN /\ failed' = OnPositioningError(failed, song)
                /\ pending_index' = pending_index + 1
                /\ pc' = AfterPending(pending_index')
           ELSE /\ pc' = IF break \/ attempt + 1 >= PollAttempts
                         THEN "mig_move" ELSE "mig_poll"
                /\ UNCHANGED <<failed, pending_index>>

(* Lines 502-553: one attempt of the poll loop of one pending song. *)
MigratePoll ==
    /\ pc = "mig_poll"
    /\ \E read \in GetPlaylistResults : MigratePolled(read)
    /\ UNCHANGED <<payload, result, envVars, addReturned, editReturned, polls,
                   before_set_video_ids, moveItem, moveVars, index,
                   pending_migrations, successful_migrations, resolved, appended>>

(* Lines 555-610: the plan and the reorder call of one pending song; a
   raising call is swallowed. *)
MigrateMove ==
    /\ pc = "mig_move"
    /\ LET song == At(pending_migrations, pending_index)
           plan == MigratePlan(after_tracks, CurrentScan, song.expectedIndex)
       IN /\ inserted_set_video_id' = plan.inserted_set_video_id
          /\ inserted_index' = plan.inserted_index
          /\ IF plan.kind = "continue"
             THEN UNCHANGED <<calls, editReturned, moveItem, envVars, failed>>
             ELSE /\ calls' = Count("edit")
                  /\ moveItem' = <<plan.inserted_set_video_id, plan.successor_set_video_id>>
                  /\ \E out \in MigrateMutationOutcomes :
                      /\ editReturned' = out
                      /\ IF out \in AppliedResults
                         THEN /\ remote' = Reorder(remote, plan.inserted_set_video_id,
                                                   plan.successor_set_video_id)
                              /\ remotePrev' = remote
                              /\ UNCHANGED <<nextTok, playlistDeleted>>
                         ELSE UNCHANGED envVars
                      /\ failed' = IF out = Raised THEN OnPositioningError(failed, song)
                                   ELSE failed
    /\ pending_index' = pending_index + 1
    /\ pc' = AfterPending(pending_index')
    /\ UNCHANGED <<payload, result, addReturned, polls, before_set_video_ids,
                   after_tracks, fallback_set_video_id, fallback_index, attempt,
                   moveVars, index, pending_migrations, successful_migrations,
                   resolved, appended>>

(* Lines 637-650: the batch result. *)
MigrateReturn ==
    /\ pc = "mig_return"
    /\ result' = Ok([playlistId |-> playlist_id, migrated |-> successful_migrations,
                     failed |-> failed])
    /\ pc' = "done"
    /\ UNCHANGED <<payload, envVars, calls, addReturned, editReturned, scanVars,
                   moveItem, moveVars, migVars>>

NextMigrate ==
    \/ MigrateBegin
    \/ MigrateSearchSongs
    \/ MigrateSearchVideos
    \/ MigrateAppendAll
    \/ MigrateBefore
    \/ MigrateAdd
    \/ MigratePoll
    \/ MigrateMove
    \/ MigrateReturn

SpecMigrate == InitMigrate /\ [][NextMigrate]_vars

-----------------------------------------------------------------------------
(* Properties of handle_insert_video_at_position, checked under SpecInsert. *)

DistinctTokens(rows) ==
    /\ \A k \in 1..Len(rows) : rows[k].setVideoId # ""
    /\ \A j, k \in 1..Len(rows) : rows[j].setVideoId = rows[k].setVideoId => j = k

InsertMoved == pc = "done" /\ result.ok /\ calls.edit = 1 /\ result.moved

(* C1: when the after-snapshot rows carry distinct non-empty tokens and the
   operation issues its reorder call and returns moved:true, placing the
   inserted token immediately before the successor token in the
   after-snapshot order leaves the inserted row at index
   min(expectedIndex, N-1), which is the reported insertedIndex. *)
C1_InsertLandsAtTarget ==
    (InsertMoved /\ DistinctTokens(after_tracks)) =>
        LET target == Min(expected_index, Len(after_tracks) - 1)
            order == Reorder(after_tracks, moveItem[1], moveItem[2])
        IN  /\ moveItem[1] = inserted_set_video_id
            /\ TokenIndex(order, inserted_set_video_id) = target
            /\ result.insertedIndex = target

(* The inserted row sat before the target slot, so the successor slot was
   shifted by one, in a snapshot of at least three distinctly tokened rows. *)
C1_Witness ==
    /\ InsertMoved
    /\ DistinctTokens(after_tracks)
    /\ inserted_index < result.insertedIndex
    /\ result.insertedIndex < Len(after_tracks) - 1

NewRows(rows, vid, before) ==
    { k \in 0..(Len(rows) - 1) :
        /\ At(rows, k).videoId = vid
        /\ At(rows, k).setVideoId # ""
        /\ At(rows, k).setVideoId \notin before }

Highest(S) == CHOOSE k \in S : \A j \in S : j <= k

(* C2: after the scan of a non-empty after-snapshot, the row selected as the
   inserted entry is the highest-index row that carries the appended
   external identifier and a non-empty token absent from the before-set,
   whenever such a row exists, whatever other rows carry the identifier. *)
C2_ScanSelectsHighestNewRow ==
    (/\ pc \in {"insert_plan", "done"}
     /\ after_tracks # <<>>
     /\ NewRows(after_tracks, video_id, before_set_video_ids) # {}) =>
        LET k == Highest(NewRows(after_tracks, video_id, before_set_video_ids))
        IN  /\ inserted_index = k
            /\ inserted_set_video_id = At(after_tracks, k).setVideoId

(* The selected row has rows with the same external identifier on both
   sides of it. *)
C2_Witness ==
    /\ pc = "insert_plan"
    /\ NewRows(after_tracks, video_id, before_set_video_ids) # {}
    /\ \E j \in 0..(Len(after_tracks) - 1) :
        j < inserted_index /\ At(after_tracks, j).videoId = video_id
    /\ \E j \in 0..(Len(after_tracks) - 1) :
        j > inserted_index /\ At(after_tracks, j).videoId = video_id

AddReturnedValue == addReturned \notin {NotCalled, Raised}

(* C5 as claimed, for the single insert: an append that returns an explicit
   failure marker makes the operation fail (no ok result), and a reorder call
   that returns one is not reported as moved. *)
C5_FailureMarkerFailsInsert ==
    pc = "done" =>
        /\ (AddReturnedValue /\ operation_explicitly_failed(addReturned)) => ~result.ok
        /\ (editReturned \notin {NotCalled, Raised}
              /\ operation_explicitly_failed(editReturned)) =>
                ~(result.ok /\ result.moved)

NoMatchingRow(rows, vid) ==
    ~\E k \in 1..Len(rows) : rows[k].videoId = vid /\ rows[k].setVideoId # ""

(* C7 as claimed: when the append returned and either every polled
   after-snapshot was empty or the final polled snapshot holds no row with
   the appended external identifier and a non-empty token, the operation ends
   with ok:true and moved:false and no reorder call was issued. *)
C7_UnlocatedRowIsNotMoved ==
    (/\ pc = "done"
     /\ AddReturnedValue
     /\ (~polls.everNonEmpty \/ NoMatchingRow(after_tracks, video_id))) =>
        /\ result.ok
        /\ ~result.moved
        /\ calls.edit = 0

(* C10: a raising append ends the operation with playlist_song_add_failed
   with no after-snapshot read and no reorder call; a raising reorder call
   ends it with playlist_song_move_failed, which occurs only after the append
   call has returned. *)
C10_DistinctErrorCodes ==
    /\ addReturned = Raised =>
        /\ pc = "done"
        /\ result = Error("playlist_song_add_failed", 502)
        /\ calls = [NoCalls EXCEPT !.get = 1, !.add = 1]
    /\ (pc = "done" /\ result.code = "playlist_song_add_failed") => addReturned = Raised
    /\ editReturned = Raised =>
        /\ pc = "done"
        /\ result = Error("playlist_song_move_failed", 502)
    /\ (pc = "done" /\ result.code = "playlist_song_move_failed") =>
        /\ editReturned = Raised
        /\ AddReturnedValue
        /\ calls.add = 1
        /\ calls.edit = 1

(* The reorder call raised after an append that was applied. *)
C10_Witness ==
    /\ pc = "done"
    /\ result.code = "playlist_song_move_failed"
    /\ addReturned \in AppliedResults

-----------------------------------------------------------------------------
(* Properties of handle_move_playlist_song, checked under SpecMove.         *)

Located == pc \in {"move_step", "done"} /\ moved_set_video_id # ""

AllTokens(rows) == \A k \in 1..Len(rows) : rows[k].setVideoId # ""

(* C3: for a snapshot of N >= 2 rows and a located row at index c, the
   number of reorder calls never exceeds min(positions, c) moving up and
   min(positions, N-1-c) moving down, equals it when the operation returns
   and every row carries a token, and the reported toIndex lies in 0..N-1. *)
C3_MoveBoundedByHeadroom ==
    (Located /\ Len(tracks) >= 2) =>
        /\ calls.edit <= (IF direction = "up"
                          THEN Min(positions, from_index)
                          ELSE Min(positions, Len(tracks) - 1 - from_index))
        /\ (pc = "done" /\ result.ok) =>
            /\ result.toIndex \in 0..(Len(tracks) - 1)
            /\ result.fromIndex = from_index
            /\ AllTokens(tracks) =>
                calls.edit = (IF direction = "up"
                              THEN Min(positions, from_index)
                              ELSE Min(positions, Len(tracks) - 1 - from_index))

(* A request for more steps than the headroom: the row moved by the whole
   headroom of two or more and no further. *)
C3_Witness ==
    /\ Located
    /\ pc = "done"
    /\ result.ok
    /\ positions > calls.edit
    /\ calls.edit >= 2
    /\ result.toIndex \in {0, Len(tracks) - 1}

(* C6 as claimed: whenever the snapshot was fetched and the referenced song
   matches no row by token and no token-carrying row by external identifier,
   the operation ends with playlist_song_not_found and without a reorder
   call, for a snapshot of any length. *)
C6_UnlocatedSongIsNotFound ==
    (/\ pc = "done"
     /\ calls.get = 1
     /\ result.code # "song_load_failed"
     /\ locate_playlist_song_index(tracks, raw_song)[1] < 0) =>
        /\ result = Error("playlist_song_not_found", 404)
        /\ calls.edit = 0

-----------------------------------------------------------------------------
(* Properties of migrate_songs, checked under SpecMigrate.                   *)

ValidBatch ==
    /\ playlist_id # ""
    /\ payload.songs.t = "list"
    /\ payload.songs.items # <<>>

(* the codes of the requests that end before the client exists *)
NoClientCodes == {"missing_dependency", "missing_auth_file", "auth_init_failed"}

IdxOf(entries) == { entries[k].idx : k \in 1..Len(entries) }

EntriesFor(entries, i) == Cardinality({ k \in 1..Len(entries) : entries[k].idx = i })

InputIndexes == 0..(Len(songs) - 1)

(* C4: once the batch-level validation has passed, no per-song outcome stops
   the batch: while the songs are resolved every song before the current one
   is either queued or recorded in failed, and the batch ends with ok:true
   and every song of the input in migrated or in failed. *)
C4_EverySongIsProcessed ==
    (ValidBatch /\ result.code \notin NoClientCodes) =>
        /\ pc \in {"mig_search", "mig_videos"} =>
            /\ index < Len(songs)
            /\ \A i \in 0..(index - 1) : i \in resolved \cup IdxOf(failed)
        /\ pc \in {"mig_append", "mig_before", "mig_add", "mig_poll", "mig_move"} =>
            /\ index = Len(songs)
            /\ InputIndexes = IdxOf(pending_migrations) \cup IdxOf(failed)
        /\ pc \in {"mig_before", "mig_add", "mig_poll", "mig_move"} =>
            /\ pending_index < Len(pending_migrations)
            /\ \A k \in 1..pending_index :
                pending_migrations[k].idx \in IdxOf(successful_migrations) \cup IdxOf(failed)
        /\ pc = "done" =>
            /\ result.ok
            /\ index = Len(songs)
            /\ InputIndexes = IdxOf(result.migrated) \cup IdxOf(result.failed)

(* The first song failed in its search and the second one was migrated. *)
C4_Witness ==
    /\ pc = "done"
    /\ result.ok
    /\ Len(songs) = 2
    /\ \E k \in 1..Len(result.failed) :
        result.failed[k].idx = 0 /\ result.failed[k].error = "Search failed: exc"
    /\ IdxOf(result.migrated) = {1}

(* C8: in the position-preserving mode a song whose single-item append
   returned is in migrated and not in failed, whatever its positioning step
   does afterwards, and the batch still ends with ok:true. *)
C8_AppendedSongStaysMigrated ==
    \A i \in appended :
        /\ EntriesFor(successful_migrations, i) = 1
        /\ i \notin IdxOf(failed)
        /\ pc = "done" =>
            /\ result.ok
            /\ EntriesFor(result.migrated, i) = 1
            /\ i \notin IdxOf(result.failed)

(* Two songs were appended; the reorder call of the last one raised. *)
C8_Witness ==
    /\ pc = "done"
    /\ preserve_position
    /\ editReturned = Raised
    /\ calls.edit = 1
    /\ appended = {0, 1}
    /\ IdxOf(result.migrated) = {0, 1}

BulkAppendRaised ==
    /\ pc \in {"mig_return", "done"}
    /\ ~preserve_position
    /\ addReturned = Raised

SearchErrors ==
    {"Song payload must be an object.", "Song title is required.",
     "Search failed: exc", "No matching song found on YouTube Music.",
     "Search result did not include a videoId."}

(* C9: in the append-only mode, when the bulk append raised, migrated is
   empty, every song that had been resolved has exactly one entry in failed,
   carrying the bulk failure message, every other song keeps the one entry
   its search or validation recorded, ahead of the bulk entries, and the
   batch ends with ok:true. *)
C9_BulkFailureFailsPendingOnly ==
    BulkAppendRaised =>
        /\ successful_migrations = <<>>
        /\ resolved # {}
        /\ \A i \in resolved :
            /\ EntriesFor(failed, i) = 1
            /\ \A k \in 1..Len(failed) :
                failed[k].idx = i => failed[k].error = BulkFailureMessage
        /\ \A i \in InputIndexes \ resolved :
            /\ EntriesFor(failed, i) = 1
            /\ \A k \in 1..Len(failed) :
                failed[k].idx = i =>
                    /\ failed[k].error \in SearchErrors
                    /\ k <= Len(failed) - Cardinality(resolved)
        /\ pc = "done" =>
            /\ result.ok
            /\ result.migrated = <<>>
            /\ result.failed = failed

(* One song failed its validation, the other was resolved and then failed
   with the bulk call. *)
C9_Witness ==
    /\ BulkAppendRaised
    /\ pc = "done"
    /\ Len(result.failed) = 2
    /\ result.failed[1].error = "Song title is required."
    /\ result.failed[2].error = BulkFailureMessage

-----------------------------------------------------------------------------
(* Input validation of handle_move_playlist_song, checked under SpecMove.    *)

SongRefIsBlank(song) ==
    \/ song.t # "dict"
    \/ safe_str(song.setVideoId) = "" /\ safe_str(song.videoId) = ""

InvalidMoveRequest ==
    \/ safe_non_negative_int(payload.positions) = None
    \/ safe_non_negative_int(payload.positions) = 0
    \/ Lower(safe_str(payload.direction)) \notin {"up", "down"}
    \/ SongRefIsBlank(payload.song)

(* C11: a relative move whose positions is 0, negative, not an integer or
   absent, whose direction is neither up nor down, or whose song reference
   carries neither a token nor an external identifier, issues no call to the
   remote service at any point and ends with invalid_input. *)
C11_InvalidMoveIsRejectedBeforeAnyCall ==
    InvalidMoveRequest =>
        /\ calls = NoCalls
        /\ remote = remotePrev
        /\ pc \in {"move", "done"}
        /\ pc = "done" => result = Error("invalid_input", 400)

(* positions = 0 for a song that the two-row playlist holds. *)
C11_Witness ==
    /\ pc = "done"
    /\ payload.positions = JInt(0)
    /\ payload.playlistId = JStr(" PL1 ")
    /\ payload.direction = JStr(" UP")
    /\ payload.song.setVideoId = JStr("t1")
    /\ Len(remote) >= 2
    /\ result.code = "invalid_input"

-----------------------------------------------------------------------------
(* Title validation of migrate_songs, checked under SpecMigrate.             *)

BlankTitle(song) ==
    /\ song.t = "dict"
    /\ \/ song.title.t # "text"
       \/ \A k \in 1..Len(song.title.s) : IsSpace(song.title.s[k])

ExpectedSongKey(song, i) ==
    IF song.songKey.t = "str" /\ Strip(song.songKey.s) # ""
    THEN Strip(song.songKey.s)
    ELSE "song-" \o ToString(i)

TitleRequiredEntry(entry, i) ==
    /\ entry.idx = i
    /\ entry.error = "Song title is required."
    /\ entry.songKey = ExpectedSongKey(At(songs, i), i)

BlankTitleSongsAreOnlyFailed ==
    (ValidBatch /\ pc # "migrate" /\ result.code \notin NoClientCodes) =>
        \A i \in InputIndexes :
            BlankTitle(At(songs, i)) =>
                /\ i \notin resolved
                /\ i \notin IdxOf(pending_migrations)
                /\ i \notin IdxOf(successful_migrations)
                /\ i \notin appended
                /\ (i < index) =>
                    /\ EntriesFor(failed, i) = 1
                    /\ \E k \in 1..Len(failed) : TitleRequiredEntry(failed[k], i)
                /\ pc = "done" =>
                    /\ EntriesFor(result.failed, i) = 1
                    /\ \E k \in 1..Len(result.failed) : TitleRequiredEntry(result.failed[k], i)
                    /\ i \notin IdxOf(result.migrated)

BlankTitleStepIssuesNoCall ==
    (pc = "mig_search" /\ BlankTitle(At(songs, index))) =>
        /\ calls' = NoCalls
        /\ Len(failed') = Len(failed) + 1
        /\ TitleRequiredEntry(failed'[Len(failed')], index)
        /\ index' = index + 1
        /\ UNCHANGED <<pending_migrations, remote, addReturned>>

(* C12: every input song whose title is absent or blank after trimming gets
   one entry in failed, with the error 'Song title is required.' and the
   songKey of the caller or 'song-<zero-based index>'; the step that handles
   the song issues no search and no append call, and the song is never
   queued for an append. *)
C12_BlankTitleIsFailedWithoutCalls ==
    /\ [](BlankTitleSongsAreOnlyFailed)
    /\ [][BlankTitleStepIssuesNoCall]_vars

(* The first song was migrated and the second, with a blank title and no
   songKey, failed under song-1. *)
C12_Witness ==
    /\ pc = "done"
    /\ result.ok
    /\ Len(songs) = 2
    /\ BlankTitle(At(songs, 1))
    /\ IdxOf(result.migrated) = {0}
    /\ \E k \in 1..Len(result.failed) :
        result.failed[k].songKey = "song-1" /\ result.failed[k].error = "Song title is required."

-----------------------------------------------------------------------------
(* handle_playlist_songs: the direct read of a playlist.  The rows of this   *)
(* specification carry a title; none carries artists or an album, for which  *)
(* extract_artist_text and extract_album_text return "".                     *)

DetailRow(title, vid, tok) == [title |-> title, videoId |-> vid, setVideoId |-> tok]

DetailPlaylistsOfLen(n) ==
    { [k \in 1..n |-> DetailRow(t[k], v[k], Tok(k))] :
        t \in [1..n -> {"", "T1"}], v \in [1..n -> VideoIds] }

DetailPlaylists == UNION { DetailPlaylistsOfLen(n) : n \in 0..MaxRows }

SongsPayloads == [playlistId : {JStr(" PL1 "), JNull}]

InitSongs ==
    /\ pc = "songs"
    /\ payload \in SongsPayloads
    /\ remote \in DetailPlaylists
    /\ InitCommon

(* returns NoDetail for Python's None *)
NoDetail == [title |-> "", artist |-> "", album |-> "", videoId |-> "", setVideoId |-> ""]

build_song_detail(track) ==
    IF track.title = "" THEN NoDetail
    ELSE [title |-> track.title, artist |-> "", album |-> "",
          videoId |-> track.videoId, setVideoId |-> track.setVideoId]

(* for track in tracks: detail = build_song_detail(track); if detail: append *)
RECURSIVE SongDetails(_)
SongDetails(rows) ==
    IF rows = <<>> THEN <<>>
    ELSE LET detail == build_song_detail(Head(rows)) IN
         IF detail = NoDetail THEN SongDetails(Tail(rows))
         ELSE <<detail>> \o SongDetails(Tail(rows))

(* f"{artist} - {title}" if detail.get("artist") else detail["title"] *)
SongLabels(song_details) ==
    [k \in 1..Len(song_details) |->
        IF song_details[k].artist # ""
        THEN song_details[k].artist \o " - " \o song_details[k].title
        ELSE song_details[k].title]

(* Lines 175-207. *)
PlaylistSongs ==
    /\ pc = "songs"
    /\ IF playlist_id = ""
       THEN /\ result' = Error("invalid_input", 400)
            /\ UNCHANGED <<calls, polls, tracks>>
       ELSE \E read \in GetPlaylistResults :
            /\ calls' = Count("get")
            /\ polls' = [everNonEmpty |-> SnapshotTracks(read) # <<>>, last |-> read.kind]
            /\ IF read.kind = "raise"
               THEN /\ result' = Error("song_load_failed", 502)
                    /\ UNCHANGED tracks
               ELSE LET song_details == SongDetails(SnapshotTracks(read)) IN
                    /\ tracks' = SnapshotTracks(read)
                    /\ result' = Ok([songs |-> SongLabels(song_details),
                                     songDetails |-> song_details])
    /\ pc' = "done"
    /\ UNCHANGED <<payload, migVars, envVars, addReturned, editReturned,
                   before_set_video_ids, after_tracks, inserted_set_video_id,
                   inserted_index, fallback_set_video_id, fallback_index, attempt,
                   moveItem, from_index, final_index, steps, moved_set_video_id, step>>

NextSongs == PlaylistSongs

SpecSongs == InitSongs /\ [][NextSongs]_vars

(* C13 as claimed: a direct read (playlistSongs) whose list call returned a
   payload that is not an object, or whose entries field is not a list, ends
   with a load error and not with a successful empty result. *)
C13_MalformedDirectReadIsLoadError ==
    (pc = "done" /\ polls.last = "malformed") =>
        /\ ~result.ok
        /\ result.code = "song_load_failed"

-----------------------------------------------------------------------------
(* pick_best_match applied to candidate lists and targets drawn from small   *)
(* sets: payload holds the arguments, result the returned candidate.         *)

MaxCandidates == 3      \* candidates of one list

ScorerPool ==
    { Candidate(<<"a", "b">>, << <<"Q">> >>, "v1"),
      Candidate(<<"A", "b">>, << <<" ", "q">> >>, "v2"),
      [Candidate(<<"a", "b", " ", "c">>, << <<"Q">> >>, "v3") EXCEPT !.album = <<"z">>],
      [Candidate(<<"a", "b">>, << <<"X">> >>, "v4") EXCEPT !.album = <<"z">>],
      [Candidate(<<"a", "b">>, << <<"Q">> >>, "") EXCEPT !.album = <<"Z">>],
      [Candidate(<<"x">>, << <<"Q">>, <<"r">> >>, "v5") EXCEPT !.album = <<"z", "-", "y">>] }

RECURSIVE ScorerLists(_)
ScorerLists(n) ==
    IF n = 0 THEN { <<>> }
    ELSE ScorerLists(n - 1) \cup
         { Append(l, c) : l \in { x \in ScorerLists(n - 1) : Len(x) = n - 1 },
                          c \in ScorerPool }

ScorerInputs ==
    [results : ScorerLists(MaxCandidates),
     title : { <<"a", "b">>, <<"!">> },
     artist : { <<>>, <<"Q">>, <<"Q", " ", "s">> },
     album : { <<>>, <<"z">> },
     require_artist_match : BOOLEAN]

InitScorer ==
    /\ pc = "pick"
    /\ payload \in ScorerInputs
    /\ remote = <<>>
    /\ InitCommon

PickBestMatch ==
    /\ pc = "pick"
    /\ result' = pick_best_match(payload.results, payload.title, payload.artist,
                                 payload.album, payload.require_artist_match)
    /\ pc' = "done"
    /\ UNCHANGED <<payload, envVars, calls, addReturned, editReturned, scanVars,
                   moveItem, moveVars, migVars>>

NextScorer == PickBestMatch

SpecScorer == InitScorer /\ [][NextScorer]_vars

Positions(results) == 1..Len(results)

HasId(c) == c.videoId # ""

(* the total the scorer gives a candidate for the target of the request *)
PayloadScore(c) == total_score(c, payload.title, payload.artist, payload.album)

(* C14: a candidate without a non-empty external identifier is never
   returned: the result is 'no match' or one of the identifier-carrying
   candidates of the list, and it is 'no match' when no candidate carries an
   identifier. *)
C14_BlankIdIsNeverReturned ==
    pc = "done" =>
        /\ result # NoMatch =>
            /\ HasId(result)
            /\ \E k \in Positions(payload.results) : payload.results[k] = result
        /\ (\A k \in Positions(payload.results) : ~HasId(payload.results[k])) =>
            result = NoMatch

(* The candidate without an identifier has the highest total of the list and
   another candidate is returned. *)
C14_Witness ==
    /\ pc = "done"
    /\ result # NoMatch
    /\ \E k \in Positions(payload.results) :
        /\ ~HasId(payload.results[k])
        /\ \A j \in Positions(payload.results) :
            j # k => PayloadScore(payload.results[j]) < PayloadScore(payload.results[k])

IdCarrying(results) == { k \in Positions(results) : HasId(results[k]) }

NoArtistMatch ==
    /\ payload.artist # <<>>
    /\ \A k \in IdCarrying(payload.results) :
        artist_match_level(payload.results[k], payload.artist) = 0

(* C15: when a target artist is given and no identifier-carrying candidate
   has an artist match level above 0, pick_best_match returns 'no match' with
   require_artist_match set, whatever the titles and albums score; with the
   flag unset it returns a best-scoring one of the identifier-carrying
   candidates. *)
C15_ArtistRequirementDecidesFallback ==
    (pc = "done" /\ NoArtistMatch) =>
        /\ payload.require_artist_match => result = NoMatch
        /\ (~payload.require_artist_match /\ IdCarrying(payload.results) # {}) =>
            /\ \E k \in IdCarrying(payload.results) : payload.results[k] = result
            /\ \A j \in IdCarrying(payload.results) :
                PayloadScore(payload.results[j]) <= PayloadScore(result)
        /\ IdCarrying(payload.results) = {} => result = NoMatch

(* With the flag set, 'no match' is returned although a candidate with an
   identifier matches the title and the album exactly. *)
C15_Witness ==
    /\ pc = "done"
    /\ NoArtistMatch
    /\ payload.require_artist_match
    /\ result = NoMatch
    /\ \E k \in IdCarrying(payload.results) : PayloadScore(payload.results[k]) = 18

(* The score table of C16, for the target of the request; a level is a match
   of a non-empty normalized target text. *)
TitlePoints(c) ==
    LET target == normalize(payload.title)
        text == normalize(TextStrip(c.title))
    IN IF target = <<>> THEN 0
       ELSE IF text = target THEN 8
       ELSE IF IsSubstring(target, text) THEN 5
       ELSE 0

ArtistPoints(c) ==
    LET target == normalize(payload.artist)
        text == normalize(extract_artist_text(c))
        tokens == SplitWhitespace(target, <<>>)
    IN IF target = <<>> THEN 0
       ELSE IF text = target THEN 5
       ELSE IF IsSubstring(target, text) THEN 3
       ELSE IF \E k \in 1..Len(tokens) : IsSubstring(tokens[k], text) THEN 1
       ELSE 0

AlbumLevel(c) ==
    LET target == normalize(payload.album)
        text == normalize(c.album)
    IN IF target = <<>> \/ text = <<>> THEN 0
       ELSE IF text = target THEN 2
       ELSE IF IsSubstring(target, text) THEN 1
       ELSE 0

TableScore(c) ==
    TitlePoints(c) + ArtistPoints(c) + 4 * AlbumLevel(c) + (IF HasId(c) THEN 2 ELSE 0)

Survivors ==
    LET ids == IdCarrying(payload.results)
        matched == { k \in ids : ArtistPoints(payload.results[k]) > 0 }
    IN IF payload.artist # <<>> /\ matched # {} THEN matched
       ELSE IF payload.artist # <<>> /\ payload.require_artist_match THEN {}
       ELSE ids

(* C16: the candidate pick_best_match returns has the maximum total of the
   score table among the candidates that survive the filtering, and among
   those tied at the maximum it is the one at the lowest index of the list;
   the result is 'no match' exactly when no candidate survives. *)
C16_ReturnsFirstMaximalSurvivor ==
    pc = "done" =>
        /\ Survivors = {} <=> result = NoMatch
        /\ Survivors # {} =>
            \E k \in Survivors :
                /\ payload.results[k] = result
                /\ \A j \in Survivors :
                    /\ TableScore(payload.results[j]) <= TableScore(result)
                    /\ j < k => TableScore(payload.results[j]) < TableScore(result)

(* The returned candidate scores 15; a substring-title candidate scoring 12
   precedes it and a different candidate scoring 15 follows it. *)
C16_Witness ==
    /\ pc = "done"
    /\ result # NoMatch
    /\ TableScore(result) = 15
    /\ TitlePoints(result) = 8
    /\ \E k \in Survivors :
        /\ payload.results[k] = result
        /\ \E j \in Survivors :
            j < k /\ TableScore(payload.results[j]) = 12
                  /\ TitlePoints(payload.results[j]) = 5
        /\ \E j \in Survivors :
            j > k /\ TableScore(payload.results[j]) = 15 /\ payload.results[j] # result

SomeArtistMatch ==
    /\ payload.artist # <<>>
    /\ \E k \in IdCarrying(payload.results) :
        artist_match_level(payload.results[k], payload.artist) > 0

(* C24: when a target artist is given and some identifier-carrying candidate
   has an artist match level above 0, the candidate pick_best_match returns
   has an artist match level above 0, whatever the totals of the candidates
   of level 0 and whatever the value of require_artist_match. *)
C24_ArtistFilterComesBeforeScore ==
    (pc = "done" /\ SomeArtistMatch) =>
        /\ result # NoMatch
        /\ HasId(result)
        /\ artist_match_level(result, payload.artist) > 0
        /\ \E k \in IdCarrying(payload.results) : payload.results[k] = result

(* With the flag unset, a candidate of artist level 0 totals 18 and the
   returned candidate, of artist level above 0, totals less. *)
C24_Witness ==
    /\ pc = "done"
    /\ SomeArtistMatch
    /\ ~payload.require_artist_match
    /\ result # NoMatch
    /\ artist_match_level(result, payload.artist) > 0
    /\ PayloadScore(result) < 18
    /\ \E k \in IdCarrying(payload.results) :
        /\ artist_match_level(payload.results[k], payload.artist) = 0
        /\ PayloadScore(payload.results[k]) = 18

TitleAndArtistPoints(c) == TitlePoints(c) + ArtistPoints(c)

(* C25 as claimed: album only corroborates: no candidate that survives the
   filtering and has a strictly higher title-plus-artist score than the
   returned candidate has a lower total than the returned candidate. *)
C25_AlbumNeverOutranksTitleAndArtist ==
    (pc = "done" /\ result # NoMatch) =>
        \A j \in Survivors :
            TitleAndArtistPoints(payload.results[j]) > TitleAndArtistPoints(result) =>
                PayloadScore(payload.results[j]) >= PayloadScore(result)

-----------------------------------------------------------------------------
(* normalize applied to pairs of strings drawn from a small alphabet:        *)
(* payload holds the two strings, result the keys.                           *)

MaxLen == 3             \* characters of an input string

Alphabet == {"b", "B", "1", "-", " "}

(* the second string of a pair: lower case, separated by spaces *)
PlainAlphabet == {"b", "1", " "}

RECURSIVE Strings(_, _)
Strings(alphabet, n) ==
    IF n = 0 THEN { <<>> }
    ELSE Strings(alphabet, n - 1) \cup
         { Append(x, ch) : x \in { y \in Strings(alphabet, n - 1) : Len(y) = n - 1 },
                           ch \in alphabet }

InitNormalize ==
    /\ pc = "normalize"
    /\ payload \in [s : Strings(Alphabet, MaxLen), t : Strings(PlainAlphabet, MaxLen)]
    /\ remote = <<>>
    /\ InitCommon

Normalize ==
    /\ pc = "normalize"
    /\ result' = [key |-> normalize(payload.s),
                  again |-> normalize(normalize(payload.s)),
                  other |-> normalize(payload.t)]
    /\ pc' = "done"
    /\ UNCHANGED <<payload, envVars, calls, addReturned, editReturned, scanVars,
                   moveItem, moveVars, migVars>>

NextNormalize == Normalize

SpecNormalize == InitNormalize /\ [][NextNormalize]_vars

IsLetter(ch) ==
    \E k \in 1..Len(LowerCase) : LowerCase[k] = ch \/ UpperCase[k] = ch

IsLowerLetter(ch) == \E k \in 1..Len(LowerCase) : LowerCase[k] = ch

(* the alphanumeric runs of a string, letters folded to lower case *)
RECURSIVE AlnumRuns(_, _)
AlnumRuns(chars, run) ==
    IF chars = <<>> THEN (IF run = <<>> THEN <<>> ELSE <<run>>)
    ELSE IF IsLetter(Head(chars)) \/ Head(chars) \in Digits
    THEN AlnumRuns(Tail(chars), Append(run, LowerChar(Head(chars))))
    ELSE (IF run = <<>> THEN <<>> ELSE <<run>>) \o AlnumRuns(Tail(chars), <<>>)

SameRuns(s, t) == AlnumRuns(s, <<>>) = AlnumRuns(t, <<>>)

WellFormedKey(key) ==
    /\ \A k \in 1..Len(key) : IsLowerLetter(key[k]) \/ key[k] \in Digits \/ key[k] = " "
    /\ key # <<>> => key[1] # " " /\ key[Len(key)] # " "
    /\ \A k \in 1..(Len(key) - 1) : ~(key[k] = " " /\ key[k + 1] = " ")

(* C17: normalize(normalize(s)) = normalize(s); two strings with the same
   alphanumeric runs up to letter case have the same key; the key holds only
   lower-case letters, digits and single interior spaces. *)
C17_NormalizeIsIdempotentAndInsensitive ==
    pc = "done" =>
        /\ result.again = result.key
        /\ SameRuns(payload.s, payload.t) => result.key = result.other
        /\ WellFormedKey(result.key)
        /\ AlnumRuns(result.key, <<>>) = AlnumRuns(payload.s, <<>>)

(* Two different strings, one with an upper-case letter and a hyphen, the
   other with a space, with the same two-run key. *)
C17_Witness ==
    /\ pc = "done"
    /\ payload.s = <<"B", "-", "1">>
    /\ payload.t = <<"b", " ", "1">>
    /\ result.key = <<"b", " ", "1">>
    /\ result.other = result.key

-----------------------------------------------------------------------------
(* The fallback of the reverse scan, checked under SpecInsert.               *)

MatchingRows(rows, vid) ==
    { k \in 0..(Len(rows) - 1) :
        At(rows, k).videoId = vid /\ At(rows, k).setVideoId # "" }

Lowest(S) == CHOOSE k \in S : \A j \in S : k <= j

(* C18 as claimed: when the scanned after-snapshot holds rows with the
   appended external identifier and a non-empty token, and every such token
   is in the before-set, the row taken as the inserted entry is the
   lowest-index one of them, and the move is planned from it. *)
C18_FallbackIsLowestMatchingRow ==
    (/\ pc \in {"insert_plan", "done"}
     /\ polls.last = "snapshot"
     /\ after_tracks # <<>>
     /\ NewRows(after_tracks, video_id, before_set_video_ids) = {}
     /\ MatchingRows(after_tracks, video_id) # {}) =>
        LET k == Lowest(MatchingRows(after_tracks, video_id))
        IN  /\ pc = "insert_plan" =>
                /\ fallback_index = k
                /\ fallback_set_video_id = At(after_tracks, k).setVideoId
            /\ pc = "done" =>
                /\ inserted_index = k
                /\ inserted_set_video_id = At(after_tracks, k).setVideoId

-----------------------------------------------------------------------------
(* The poll loops of both reconciliations, checked under SpecReconcile: the  *)
(* single insert and the position-preserving migration, each step taken      *)
(* eventually.                                                               *)

NextReconcile == NextInsert \/ NextMigrate

(* One insert request and one migration request per mode, on playlists that
   hold the appended identifier already, or do not. *)
ReconcilePayloads ==
    [playlistId : {JStr(" PL1 ")}, videoId : {JStr("v1")},
     expectedIndex : {JInt(0), JInt(1)}]
    \cup
    [playlistId : {JStr(" PL1 ")},
     songs : LET song == SongDict(JStr("k1"), JText(<<"A", "b">>), JText(<<"Q">>),
                                  JNull, JInt(0))
             IN { [t |-> "list", items |-> <<song>>],
                  [t |-> "list", items |-> <<song, song>>] },
     preservePosition : {JStr(" YES "), JInt(0)}]

ReconcilePlaylists ==
    { <<>>, <<Row("v2", "t1")>>, <<Row("v1", "t1"), Row("v1", "t2")>> }

InitReconcile ==
    /\ payload \in ReconcilePayloads
    /\ pc = IF "songs" \in DOMAIN payload THEN "migrate" ELSE "insert"
    /\ remote \in ReconcilePlaylists
    /\ InitCommon

SpecReconcile ==
    /\ InitReconcile
    /\ [][NextReconcile]_vars
    /\ WF_vars(NextReconcile)

Polling == pc \in {"insert_poll", "mig_poll"}

PollEnded == pc \in {"insert_plan", "mig_move"}

(* the after-snapshot reads since the append: calls.get counts the one
   before-snapshot read as well *)
AfterReads == calls.get - 1

CandidateFound == inserted_set_video_id # "" \/ fallback_set_video_id # ""

PollCountsAreBounded ==
    /\ Polling =>
        /\ attempt \in 0..(PollAttempts - 1)
        /\ AfterReads = attempt
        /\ calls.sleep = attempt
        /\ ~CandidateFound
    /\ PollEnded =>
        /\ AfterReads \in 1..PollAttempts
        /\ calls.sleep = AfterReads - 1
        /\ CandidateFound \/ AfterReads = PollAttempts
    /\ (pc = "done" /\ result.code = "song_load_failed" /\ addReturned # NotCalled) =>
        /\ AfterReads = PollAttempts
        /\ calls.sleep = PollAttempts - 1

PollStepReadsOnce ==
    /\ Polling =>
        /\ calls'.get = calls.get + 1
        /\ pc' = pc => calls'.sleep = calls.sleep + 1 /\ attempt' = attempt + 1
        /\ pc' # pc => calls'.sleep = calls.sleep
    /\ PollEnded => calls'.get = calls.get /\ calls'.sleep = calls.sleep

(* C19: after an append that is followed by reconciliation, between 1 and 5
   after-snapshot reads are issued, none once a read has yielded a candidate
   row, a pause follows every read but the last one (at most 4, none after
   the fifth attempt), and the poll loop is always left. *)
C19_PollingIsBounded ==
    /\ [](PollCountsAreBounded)
    /\ [][PollStepReadsOnce]_vars
    /\ (Polling ~> ~Polling)

(* The third read yielded the new row: three reads and two pauses. *)
C19_Witness ==
    /\ PollEnded
    /\ AfterReads = 3
    /\ calls.sleep = 2
    /\ inserted_set_video_id # ""

-----------------------------------------------------------------------------
(* Stale after-snapshots, checked under SpecInsert.                          *)

NewRowSelected ==
    /\ inserted_set_video_id = Tok(nextTok - 1)
    /\ inserted_index = Len(remote) - 1
    /\ At(remote, inserted_index).setVideoId = inserted_set_video_id

(* C20 as claimed: with the before-snapshot read, the append applied and no
   other writer, the poll loop does not end on a first after-snapshot that
   is a stale read of the pre-append playlist: when it ends after one read,
   that read showed the row the append created and this row is the inserted
   entry, whatever rows the playlist held before. *)
C20_StaleReadDoesNotEndPolling ==
    (/\ pc = "insert_plan"
     /\ addReturned \in AppliedResults
     /\ before_set_video_ids = BeforeSetVideoIds(remotePrev)
     /\ polls.last = "snapshot"
     /\ AfterReads = 1) =>
        /\ after_tracks = remote
        /\ NewRowSelected

-----------------------------------------------------------------------------
(* The mirror of the relative move, checked under SpecMove.                  *)

MovingIndex(rows) == TokenIndex(rows, moved_set_video_id)

(* The two rows at i and i + 1 of before changed places and nothing else did. *)
AdjacentSwap(before, after, i) ==
    /\ i >= 0
    /\ i + 1 < Len(before)
    /\ after = Swap(before, i, i + 1)

(* A step of the loop that ended without raising: the reorder call was
   applied by the service, or the loop broke before calling. *)
SuccessfulMoveStep ==
    /\ MoveStep
    /\ pc' # "crashed"
    /\ \/ calls' = calls
       \/ editReturned' \in AppliedResults

MirrorStepIsRemoteStep ==
    (SuccessfulMoveStep /\ tracks = remote) =>
        /\ tracks' = remote'
        /\ calls'.edit = calls.edit + 1 =>
            /\ moveItem' = (IF direction = "up"
                            THEN <<moved_set_video_id,
                                   At(remote, MovingIndex(remote) - 1).setVideoId>>
                            ELSE <<At(remote, MovingIndex(remote) + 1).setVideoId,
                                   moved_set_video_id>>)
            /\ AdjacentSwap(remote, remote',
                            IF direction = "up" THEN MovingIndex(remote) - 1
                            ELSE MovingIndex(remote))
            /\ MovingIndex(remote') = final_index'
        /\ pc' = "done" =>
            /\ result'.ok
            /\ result'.toIndex = MovingIndex(remote')
            /\ result'.moved = (result'.toIndex # result'.fromIndex)

MirrorStartsAsRemote ==
    (pc = "move_step" /\ calls.edit = 0) =>
        /\ tracks = remote
        /\ final_index = MovingIndex(remote)

(* C21: with reorder(a, b) placing row a immediately before row b, the mirror
   of a relative move starts as the remote order, and every step whose
   reorder call the service applied leaves the mirror equal to the remote
   order: the call is reorder(moving, predecessor) moving up and
   reorder(successor, moving) moving down, it exchanges two adjacent rows of
   the remote playlist, and the toIndex reported at the end is the index of
   the moving row in the remote playlist. *)
C21_MirrorFollowsRemoteOrder ==
    /\ []MirrorStartsAsRemote
    /\ [][MirrorStepIsRemoteStep]_vars

(* Two applied steps down from the first row of three. *)
C21_Witness ==
    /\ pc = "done"
    /\ result.ok
    /\ direction = "down"
    /\ calls.edit = 2
    /\ result.fromIndex = 0
    /\ result.toIndex = 2
    /\ tracks = remote
    /\ MovingIndex(remote) = 2

-----------------------------------------------------------------------------
(* The call sequence of position-preserving migration, checked under         *)
(* SpecMigrate.  calls counts the calls made for the pending song at hand.   *)

PositioningSteps == {"mig_before", "mig_add", "mig_poll", "mig_move"}

OnlyBeforeRead == [NoCalls EXCEPT !.get = 1]

(* One step of the loop over the pending songs, by the call it issues. *)
SongCallsInOrder ==
    /\ pc = "mig_before" =>
        /\ calls' = OnlyBeforeRead
        /\ pc' = "mig_add"
        /\ remote' = remote
        /\ pending_index' = pending_index
    /\ pc = "mig_add" =>
        /\ calls = OnlyBeforeRead
        /\ calls' = [OnlyBeforeRead EXCEPT !.add = 1]
    /\ pc = "mig_poll" =>
        /\ calls.add = 1
        /\ calls.edit = 0
        /\ calls.get \in 1..PollAttempts
        /\ calls' = [calls EXCEPT !.get = calls.get + 1, !.sleep = calls'.sleep]
        /\ remote' = remote
    /\ pc = "mig_move" =>
        /\ calls.add = 1
        /\ calls.edit = 0
        /\ calls.get \in 2..(PollAttempts + 1)
        /\ \/ calls' = calls /\ remote' = remote
           \/ calls' = [calls EXCEPT !.edit = 1]
    /\ pc \in PositioningSteps =>
        \/ /\ pending_index' = pending_index
           /\ pc' \in PositioningSteps \ {"mig_before"}
        \/ /\ pending_index' = pending_index + 1
           /\ pc # "mig_before"
           /\ pc' \in {"mig_before", "mig_return"}

SongCallsAreCounted ==
    /\ pc \in PositioningSteps => pending_index < Len(pending_migrations)
    /\ pc \in PositioningSteps \ {"mig_before"} =>
        /\ calls.get \in 1..(PollAttempts + 1)
        /\ calls.add = (IF pc = "mig_add" THEN 0 ELSE 1)
        /\ calls.edit = 0
        /\ calls.search = 0
        /\ Len(successful_migrations) + Len(failed) >= pending_index

(* C22: in position-preserving migration the calls made for one pending song
   are, in this order, one before-snapshot read, one append, at most five
   after-snapshot reads and at most one reorder, the reorder only after an
   after-snapshot read; the playlist is changed by this process only in the
   append and the reorder of the song at hand, and the next song's
   before-snapshot read is the first call after the last call of the song. *)
C22_SongsAreReconciledOneAtATime ==
    /\ []SongCallsAreCounted
    /\ [][SongCallsInOrder]_vars

(* The second pending song was appended, polled past an unhelpful read and
   moved, after the first one was appended. *)
C22_Witness ==
    /\ pc = "mig_return"
    /\ pending_index = 2
    /\ Len(successful_migrations) = 2
    /\ calls.get >= 3
    /\ calls.add = 1
    /\ calls.edit = 1
    /\ editReturned \in AppliedResults

-----------------------------------------------------------------------------
(* The row lookup of the relative move, checked under SpecMove.              *)

TokenMatches(rows, song_ref) ==
    { k \in 0..(Len(rows) - 1) :
        song_ref.setVideoId # "" /\ At(rows, k).setVideoId = song_ref.setVideoId }

IdentifierMatches(rows, song_ref) ==
    { k \in 0..(Len(rows) - 1) :
        /\ song_ref.videoId # ""
        /\ At(rows, k).videoId = song_ref.videoId
        /\ At(rows, k).setVideoId # "" }

Least(S) == CHOOSE k \in S : \A j \in S : k <= j

LookupIsTokenFirst(rows, song_ref) ==
    LET found == locate_playlist_song_index(rows, song_ref)
        byToken == TokenMatches(rows, song_ref)
        byIdentifier == IdentifierMatches(rows, song_ref)
    IN  /\ byToken # {} => found[1] = Least(byToken)
        /\ (byToken = {} /\ byIdentifier # {}) => found[1] = Least(byIdentifier)
        /\ (byToken = {} /\ byIdentifier = {}) => found = <<0 - 1, "">>
        /\ found[1] >= 0 =>
            /\ found[2] # ""
            /\ found[2] = At(rows, found[1]).setVideoId

MoveLookedUp ==
    /\ pc \in {"move_step", "done"}
    /\ calls.get = 1
    /\ calls.edit = 0
    /\ Len(tracks) >= 2

(* C23: the row lookup returns the first row whose token equals the token of
   the reference, also when a row of lower index matches the reference's
   external identifier; without a token match it returns the first row that
   matches the external identifier and carries a token of its own; otherwise
   -1.  The token returned with a row is the non-empty token of that row, and
   the handler moves the row and the token so found. *)
C23_LookupIsTokenFirst ==
    raw_song # JNull =>
        /\ LookupIsTokenFirst(tracks, raw_song)
        /\ LookupIsTokenFirst(remote, raw_song)
        /\ (MoveLookedUp /\ pc = "move_step") =>
            /\ from_index = locate_playlist_song_index(tracks, raw_song)[1]
            /\ moved_set_video_id = locate_playlist_song_index(tracks, raw_song)[2]
            /\ from_index >= 0
        /\ (MoveLookedUp /\ locate_playlist_song_index(tracks, raw_song)[1] < 0) =>
            result = Error("playlist_song_not_found", 404)

(* The reference carries the token of the second row and the external
   identifier of the first row: the second row is the one moved. *)
C23_Witness ==
    /\ pc = "move_step"
    /\ calls.edit = 0
    /\ raw_song.setVideoId = "t2"
    /\ raw_song.videoId = "v1"
    /\ At(tracks, 0) = Row("v1", "t1")
    /\ At(tracks, 1) = Row("v2", "t2")
    /\ from_index = 1
    /\ moved_set_video_id = "t2"

-----------------------------------------------------------------------------
(* The merge of the 'songs' searches of one song (migrate_songs, lines       *)
(* 297-315), applied to the results of one or two query variants.            *)

MergePool ==
    { Candidate(<<"a">>, << <<"Q">> >>, "v1"),
      Candidate(<<"b">>, << <<"Q">> >>, "v1"),
      Candidate(<<"a">>, << <<"Q">> >>, "v2"),
      Candidate(<<"a">>, << <<"Q">> >>, "") }

RECURSIVE MergeLists(_)
MergeLists(n) ==
    IF n = 0 THEN { <<>> }
    ELSE MergeLists(n - 1) \cup
         { Append(l, c) : l \in { x \in MergeLists(n - 1) : Len(x) = n - 1 },
                          c \in MergePool }

VariantOutcomes ==
    {SearchNotList} \cup { [kind |-> "list", results |-> l] : l \in MergeLists(MaxCandidates) }

(* queries holds the query, and the query with the album when one is given *)
InitMerge ==
    /\ pc = "merge"
    /\ payload \in { <<a>> : a \in VariantOutcomes }
                   \cup { <<a, b>> : a \in VariantOutcomes, b \in VariantOutcomes }
    /\ remote = <<>>
    /\ InitCommon

Merge ==
    /\ pc = "merge"
    /\ result' = [merged_results |-> MergeResults(payload, <<>>)]
    /\ pc' = "done"
    /\ UNCHANGED <<payload, envVars, calls, addReturned, editReturned, scanVars,
                   moveItem, moveVars, migVars>>

NextMerge == Merge

SpecMerge == InitMerge /\ [][NextMerge]_vars

(* every result of every variant, in the order the searches returned them *)
RECURSIVE AllVariantResults(_)
AllVariantResults(outcomes) ==
    IF outcomes = <<>> THEN <<>>
    ELSE (IF Head(outcomes).kind = "list" THEN Head(outcomes).results ELSE <<>>)
         \o AllVariantResults(Tail(outcomes))

FirstOccurrence(all, vid) ==
    CHOOSE k \in 1..Len(all) :
        /\ all[k].videoId = vid
        /\ \A j \in 1..(k - 1) : all[j].videoId # vid

(* C26: the merged list holds each external identifier at most once, holds
   exactly the non-empty identifiers that occur in the results of some query
   variant, holds for each of them the candidate of its first occurrence
   (earlier variant first, then list order), and is in the order of the
   first occurrences. *)
C26_MergeKeepsFirstOccurrences ==
    pc = "done" =>
        LET merged == result.merged_results
            all == AllVariantResults(payload)
        IN  /\ \A j, k \in 1..Len(merged) :
                  merged[j].videoId = merged[k].videoId => j = k
            /\ { merged[k].videoId : k \in 1..Len(merged) }
                 = { all[k].videoId : k \in 1..Len(all) } \ {""}
            /\ \A k \in 1..Len(merged) :
                  merged[k] = all[FirstOccurrence(all, merged[k].videoId)]
            /\ \A j, k \in 1..Len(merged) :
                  j < k => FirstOccurrence(all, merged[j].videoId)
                             < FirstOccurrence(all, merged[k].videoId)

(* The second variant returns another candidate for v1, ahead of the first
   result for v2: the merged list is the first variant's v1, then v2. *)
C26_Witness ==
    /\ pc = "done"
    /\ Len(payload) = 2
    /\ payload[1].results = << Candidate(<<"a">>, << <<"Q">> >>, ""),
                               Candidate(<<"a">>, << <<"Q">> >>, "v1") >>
    /\ payload[2].results = << Candidate(<<"b">>, << <<"Q">> >>, "v1"),
                               Candidate(<<"a">>, << <<"Q">> >>, "v2"),
                               Candidate(<<"a">>, << <<"Q">> >>, "v1") >>
    /\ result.merged_results = << Candidate(<<"a">>, << <<"Q">> >>, "v1"),
                                  Candidate(<<"a">>, << <<"Q">> >>, "v2") >>

-----------------------------------------------------------------------------
(* The searches of one song of migrate_songs (lines 297-418), with the       *)
(* outcomes of the 'songs' and of the 'videos' searches drawn beforehand.    *)

SearchedSongs ==
    { SongDict(JStr("k1"), JText(<<"A", "b">>), JText(<<"Q">>), JNull, JInt(0)),
      SongDict(JNull, JText(<<" ", "a", "b">>), JText(<<"q">>), JText(<<"z">>), JNull) }

InitFallback ==
    /\ pc = "mig_search"
    /\ payload \in [playlistId : {JStr(" PL1 ")},
                    songs : { [t |-> "list", items |-> <<song>>] : song \in SearchedSongs },
                    preservePosition : {JInt(0)},
                    songsSearch : [1..2 -> SearchOutcomes],
                    videosSearch : [1..2 -> SearchOutcomes]]
    /\ remote = <<>>
    /\ InitCommon

(* the outcomes of the searches that the queries of the song give rise to *)
SongsOutcomes == [k \in 1..Len(SongQueries(0)) |-> payload.songsSearch[k]]
VideosOutcomes == [k \in 1..Len(SongQueries(0)) |-> payload.videosSearch[k]]

FallbackSongs ==
    /\ pc = "mig_search"
    /\ SongsSearched(index, SongsOutcomes)
    /\ UNCHANGED <<payload, result, envVars, addReturned, editReturned, scanVars,
                   moveItem, moveVars, successful_migrations, pending_index, appended>>

FallbackVideos ==
    /\ pc = "mig_videos"
    /\ VideosSearched(index, VideosOutcomes)
    /\ UNCHANGED <<payload, result, envVars, addReturned, editReturned, scanVars,
                   moveItem, moveVars, successful_migrations, pending_index, appended>>

NextFallback == FallbackSongs \/ FallbackVideos

SpecFallback == InitFallback /\ [][NextFallback]_vars

SongsSearchRaised == \E k \in 1..Len(SongsOutcomes) : SongsOutcomes[k].kind = "raise"

VideosSearchRaised == \E k \in 1..Len(VideosOutcomes) : VideosOutcomes[k].kind = "raise"

(* the searches of the song that ran until the first one that raised *)
SearchesUntilRaise(outcomes) ==
    Cardinality({ k \in 1..Len(outcomes) :
                    \A j \in 1..(k - 1) : outcomes[j].kind # "raise" })

(* the selection among the 'songs' results, an artist match required *)
SongsSelection ==
    pick_best_match(MergeResults(SongsOutcomes, <<>>), safe_text(At(songs, 0).title),
                    safe_text(At(songs, 0).artist), safe_text(At(songs, 0).album), TRUE)

(* the selection among the 'videos' results returned before any raise, no
   artist match required *)
VideosSelection ==
    pick_best_match(MergeResults(ReturnedBeforeRaise(VideosOutcomes), <<>>),
                    safe_text(At(songs, 0).title), safe_text(At(songs, 0).artist),
                    safe_text(At(songs, 0).album), FALSE)

SongSearched == pc \notin {"mig_search", "mig_videos"}

VideosSearchIssued == calls.search > SearchesUntilRaise(SongsOutcomes)

(* C27: a 'videos' search is issued for a song exactly when its 'songs'
   searches all returned and the selection that requires an artist match
   found nothing; the song is then queued with the best 'videos' result, no
   artist match required, or failed with 'No matching song found' when there
   is none, also when a 'videos' search raised; a raising 'songs' search
   fails the song with 'Search failed' and no 'videos' search. *)
C27_VideosFallbackOnlyAfterNoMatch ==
    /\ pc = "mig_videos" =>
        /\ ~SongsSearchRaised
        /\ SongsSelection = NoMatch
        /\ calls.search = Len(SongsOutcomes)
        /\ failed = <<>> /\ pending_migrations = <<>>
    /\ SongSearched =>
        /\ VideosSearchIssued <=> (~SongsSearchRaised /\ SongsSelection = NoMatch)
        /\ Len(failed) + Len(pending_migrations) = 1
        /\ SongsSearchRaised =>
            /\ calls.search = SearchesUntilRaise(SongsOutcomes)
            /\ Len(failed) = 1
            /\ failed[1].error = "Search failed: exc"
        /\ (~SongsSearchRaised /\ SongsSelection # NoMatch) =>
            /\ Len(pending_migrations) = 1
            /\ pending_migrations[1].videoId = SongsSelection.videoId
        /\ VideosSearchIssued =>
            /\ calls.search = Len(SongsOutcomes) + SearchesUntilRaise(VideosOutcomes)
            /\ IF VideosSelection = NoMatch
               THEN /\ Len(failed) = 1
                    /\ failed[1].error = "No matching song found on YouTube Music."
               ELSE /\ Len(pending_migrations) = 1
                    /\ pending_migrations[1].videoId = VideosSelection.videoId

(* The 'songs' searches return only a result by another artist; of the two
   'videos' searches the first returns that result and the second raises:
   the song is queued with it. *)
C27_Witness ==
    /\ SongSearched
    /\ Len(SongsOutcomes) = 2
    /\ ~SongsSearchRaised
    /\ SongsSelection = NoMatch
    /\ MergeResults(SongsOutcomes, <<>>) # <<>>
    /\ VideosOutcomes[1].kind = "list"
    /\ VideosOutcomes[2].kind = "raise"
    /\ Len(pending_migrations) = 1
    /\ pending_migrations[1].videoId = "v2"
    /\ artist_match_level(VideosSelection, safe_text(At(songs, 0).artist)) = 0
    /\ failed = <<>>

-----------------------------------------------------------------------------
(* Freshness of the tokens of the relative move, checked under SpecMove.     *)
(* The handler reads the playlist once, before its first reorder call, so a  *)
(* reorder call issued after another one passes tokens of a snapshot that    *)
(* precedes a mutation of the same operation.                                *)

ReorderIssued == calls'.edit = calls.edit + 1

MutationsSinceSnapshot == calls.edit

(* C28 as claimed: every token passed to a reorder call of the relative move
   was read from a snapshot fetched after the most recent mutation of the
   operation: no reorder call is issued once a reorder was issued after the
   snapshot was fetched. *)
C28_ReorderTokensAreFresh ==
    [][(pc = "move_step" /\ ReorderIssued) =>
          /\ calls.get = 1
          /\ MutationsSinceSnapshot = 0]_vars

-----------------------------------------------------------------------------
(* The partition of the input songs by the batch result, checked under       *)
(* SpecMigrate.                                                              *)

OutcomesOf(i) == EntriesFor(result.migrated, i) + EntriesFor(result.failed, i)

(* C29: in every batch result each song of the input has exactly one
   outcome, an entry of migrated or an entry of failed, never both and never
   neither, so the two lists together are as long as the input, in the
   append-only and in the position-preserving mode and whatever the remote
   calls did. *)
C29_EverySongHasOneOutcome ==
    (pc = "done" /\ result.ok) =>
        /\ \A i \in InputIndexes : OutcomesOf(i) = 1
        /\ IdxOf(result.migrated) \cap IdxOf(result.failed) = {}
        /\ IdxOf(result.migrated) \cup IdxOf(result.failed) = InputIndexes
        /\ Len(result.migrated) + Len(result.failed) = Len(songs)

(* Position-preserving mode, two songs matched: the append of the first one
   raised, the second one was appended and its reorder call raised. *)
C29_Witness ==
    /\ pc = "done"
    /\ result.ok
    /\ preserve_position
    /\ Len(songs) = 2
    /\ Len(result.failed) = 1
    /\ result.failed[1].idx = 0
    /\ result.failed[1].error = "Failed to add song to playlist: exc"
    /\ Len(result.migrated) = 1
    /\ result.migrated[1].idx = 1
    /\ calls.edit = 1
    /\ editReturned = Raised

-----------------------------------------------------------------------------
(* The insertedIndex of the insert result, checked under SpecInsert.         *)

MutationsApplied ==
    /\ addReturned \in AppliedResults
    /\ editReturned \in AppliedResults \cup {NotCalled}

(* C30 as claimed: in every ok result of the insert, moved or not, over a
   playlist whose rows all carry distinct tokens, the reported insertedIndex
   is at most N-1 for a non-empty final after-snapshot of N rows, and, the
   service having applied the calls, it is the index that the selected row
   has in the playlist after the operation. *)
C30_InsertedIndexIsTruthful ==
    (pc = "done" /\ result.ok /\ DistinctTokens(remote)) =>
        /\ after_tracks # <<>> => result.insertedIndex <= Len(after_tracks) - 1
        /\ (MutationsApplied /\ inserted_set_video_id # "") =>
            result.insertedIndex = TokenIndex(remote, inserted_set_video_id)

-----------------------------------------------------------------------------
(* A raising reorder call of the relative move, checked under SpecMove.      *)

MoveStepRaised == MoveStep /\ editReturned' = Raised

MoveAborted == pc = "done" /\ calls.edit >= 1 /\ editReturned = Raised

(* the index of a row that went k steps in the direction of the move *)
AfterSteps(from, k) == IF direction = "up" THEN from - k ELSE from + k

RaisingStepAborts ==
    MoveStepRaised =>
        /\ calls'.edit = calls.edit + 1
        /\ calls'.edit <= steps
        /\ result' = Error("playlist_song_move_failed", 502)
        /\ pc' = "done"
        /\ remote' = remote
        /\ tracks' = tracks

AbortedMoveKeepsEarlierSteps ==
    MoveAborted =>
        /\ result = Error("playlist_song_move_failed", 502)
        /\ ~result.ok
        /\ calls.edit \in 1..steps
        /\ ~ENABLED MoveStep
        /\ tracks = remote =>
            MovingIndex(remote) = AfterSteps(from_index, calls.edit - 1)

(* C31: when the reorder call of step k of a relative move raises, the
   operation ends with playlist_song_move_failed and issues no further
   call; the playlist is left as the k-1 earlier calls made it, so that,
   those calls having been applied, the row is k-1 places from fromIndex in
   the direction of the move, and no ok result is returned. *)
C31_RaisingStepAbortsWithoutRollback ==
    /\ []AbortedMoveKeepsEarlierSteps
    /\ [][RaisingStepAborts]_vars

(* The second of three steps down raised: the row is one place further. *)
C31_Witness ==
    /\ MoveAborted
    /\ direction = "down"
    /\ steps >= 2
    /\ calls.edit = 2
    /\ from_index = 0
    /\ tracks = remote
    /\ MovingIndex(remote) = 1
    /\ result.code = "playlist_song_move_failed"

-----------------------------------------------------------------------------
(* The positioning code of handle_insert_video_at_position (load, lines      *)
(* 432-573) and of migrate_songs (migrate, lines 495-610), run from the      *)
(* state after the append on the same before-set, external identifier,       *)
(* expectedIndex and after-snapshots.                                        *)

AgreeSnapshots ==
    { ReadMalformed,
      ReadOk(<<Row("v2", "t1")>>),
      ReadOk(<<Row("v1", "t1"), Row("v2", "t2")>>),
      ReadOk(<<Row("v1", "t1"), Row("v2", ""), Row("v1", "t3")>>) }

AgreePayloads ==
    [playlistId : {JStr(" PL1 ")}, videoId : {JStr("v1")},
     expectedIndex : {JInt(n) : n \in 0..MaxIndex},
     before : {{}, {"t1"}, {"t1", "t3"}},
     snapshots : [1..PollAttempts -> AgreeSnapshots]]

AppendedSong ==
    [songKey |-> "k1", title |-> <<"a">>, artist |-> <<>>, album |-> <<>>,
     expectedIndex |-> expected_index, videoId |-> video_id,
     matchedTitle |-> <<"a">>, matchedArtists |-> <<>>, idx |-> 0]

(* the state in which the poll loop is entered: the before-snapshot was read
   and the append returned *)
InitAgree ==
    /\ payload \in AgreePayloads
    /\ pc \in {"insert_poll", "mig_poll"}
    /\ remote = <<>>
    /\ remotePrev = <<>>
    /\ nextTok = 1
    /\ playlistDeleted = FALSE
    /\ result = NoResult
    /\ calls = [NoCalls EXCEPT !.get = 1, !.add = 1]
    /\ addReturned = PyNone
    /\ editReturned = NotCalled
    /\ polls = NoPolls
    /\ before_set_video_ids = payload.before
    /\ after_tracks = <<>>
    /\ inserted_set_video_id = ""
    /\ inserted_index = 0 - 1
    /\ fallback_set_video_id = ""
    /\ fallback_index = 0 - 1
    /\ attempt = 0
    /\ moveItem = <<>>
    /\ tracks = <<>>
    /\ from_index = 0
    /\ final_index = 0
    /\ steps = 0
    /\ moved_set_video_id = ""
    /\ step = 0
    /\ index = IF pc = "mig_poll" THEN 1 ELSE 0
    /\ pending_migrations = IF pc = "mig_poll" THEN <<AppendedSong>> ELSE <<>>
    /\ failed = <<>>
    /\ successful_migrations = IF pc = "mig_poll" THEN <<AppendedSong>> ELSE <<>>
    /\ pending_index = 0
    /\ resolved = IF pc = "mig_poll" THEN {0} ELSE {}
    /\ appended = IF pc = "mig_poll" THEN {0} ELSE {}

AgreeInsertPoll ==
    /\ pc = "insert_poll"
    /\ InsertPolled(payload.snapshots[attempt + 1])
    /\ UNCHANGED <<payload, migVars, envVars, addReturned, editReturned, before_set_video_ids,
                   moveItem, moveVars>>

AgreeMigratePoll ==
    /\ pc = "mig_poll"
    /\ MigratePolled(payload.snapshots[attempt + 1])
    /\ UNCHANGED <<payload, result, envVars, addReturned, editReturned, polls,
                   before_set_video_ids, moveItem, moveVars, index,
                   pending_migrations, successful_migrations, resolved, appended>>

NextAgree == AgreeInsertPoll \/ InsertMove \/ AgreeMigratePoll \/ MigrateMove

SpecAgree == InitAgree /\ [][NextAgree]_vars

(* What both are to do, from the inputs alone. *)
AgreeRows(k) == SnapshotTracks(payload.snapshots[k])

MatchingTokened(rows) ==
    { i \in 0..(Len(rows) - 1) :
        At(rows, i).videoId = video_id /\ At(rows, i).setVideoId # "" }

Greatest(S) == CHOOSE k \in S : \A j \in S : j <= k

ExpectedReads ==
    LET useful == { k \in 1..PollAttempts : MatchingTokened(AgreeRows(k)) # {} }
    IN IF useful = {} THEN PollAttempts ELSE Least(useful)

ExpectedRow ==
    LET rows == AgreeRows(ExpectedReads)
        matching == MatchingTokened(rows)
        new == { i \in matching : At(rows, i).setVideoId \notin payload.before }
    IN IF matching = {} THEN 0 - 1
       ELSE IF new # {} THEN Greatest(new)
       ELSE Greatest(matching)

ExpectedPair ==
    LET rows == AgreeRows(ExpectedReads)
        row == ExpectedRow
        target == Min(expected_index, Len(rows) - 1)
        slot == IF row < target THEN target + 1 ELSE target
        successors == { i \in slot..(Len(rows) - 1) :
                          /\ At(rows, i).setVideoId # ""
                          /\ At(rows, i).setVideoId # At(rows, row).setVideoId }
    IN IF row < 0 \/ row = target \/ successors = {} THEN <<>>
       ELSE <<At(rows, row).setVideoId, At(rows, Least(successors)).setVideoId>>

PositioningEnded == pc \in {"done", "mig_return"}

(* C32: from the same before-set, appended identifier, expectedIndex and
   returned after-snapshots, the positioning code of the single insert and
   that of the migration make the same number of after-snapshot reads, select
   the same row and issue the same reorder call or none: each does what the
   inputs alone determine. *)
C32_ReconciliationsAgree ==
    /\ pc \in {"insert_poll", "mig_poll"} => calls.get - 1 < ExpectedReads
    /\ pc \in {"insert_plan", "mig_move"} => calls.get - 1 = ExpectedReads
    /\ PositioningEnded =>
        /\ calls.get - 1 = ExpectedReads
        /\ after_tracks = AgreeRows(ExpectedReads)
        /\ IF ExpectedRow < 0
           THEN inserted_set_video_id = ""
           ELSE /\ inserted_index = ExpectedRow
                /\ inserted_set_video_id = At(after_tracks, ExpectedRow).setVideoId
        /\ moveItem = ExpectedPair
        /\ calls.edit = (IF ExpectedPair = <<>> THEN 0 ELSE 1)

(* The migration, three reads: a malformed payload, a snapshot without the
   identifier, then the snapshot with the new row t3 last; the call moves t3
   before t1. *)
C32_Witness ==
    /\ pc = "mig_return"
    /\ calls.get - 1 = 3
    /\ payload.before = {"t1"}
    /\ inserted_set_video_id = "t3"
    /\ inserted_index = 2
    /\ moveItem = <<"t3", "t1">>
    /\ calls.edit = 1

-----------------------------------------------------------------------------
(* The calls of the single insert before a fail-fast error, checked under    *)
(* SpecInsert.                                                               *)

BlankId(v) == v.t # "str" \/ v.s \in {"", " "}

NotANonNegativeInteger(v) ==
    \/ v.t \in {"null", "bool"}
    \/ v.t = "int" /\ v.n < 0
    \/ v.t = "str" /\ v.s \in {"", " ", "x"}

InvalidInsertRequest ==
    \/ BlankId(payload.playlistId)
    \/ BlankId(payload.videoId)
    \/ NotANonNegativeInteger(payload.expectedIndex)

BeforeReadRaised == pc = "done" /\ result.code = "song_load_failed" /\ calls.get = 1

PlaylistUntouched == remote = remotePrev /\ nextTok = Len(remote) + 1

(* C33: an insert request that fails validation issues no call at all, and
   one whose before-snapshot read raises issues no append and no reorder
   call: the playlist is as it was; in every run there is at most one append
   call and at most one reorder call, and the reorder call comes only after
   the append call has returned. *)
C33_NoMutationBeforeFailFast ==
    /\ InvalidInsertRequest =>
        /\ calls = NoCalls
        /\ PlaylistUntouched
        /\ pc \in {"insert", "done"}
        /\ pc = "done" => result = Error("invalid_input", 400)
    /\ BeforeReadRaised =>
        /\ calls.add = 0 /\ calls.edit = 0
        /\ addReturned = NotCalled /\ editReturned = NotCalled
        /\ PlaylistUntouched
    /\ calls.add <= 1
    /\ calls.edit <= 1
    /\ calls.add = 0 => (addReturned = NotCalled /\ calls.edit = 0 /\ PlaylistUntouched)
    /\ calls.edit = 1 =>
        /\ calls.add = 1
        /\ addReturned \notin {NotCalled, Raised}
        /\ calls.get >= 2
    /\ pc = "insert_add" => calls = [NoCalls EXCEPT !.get = 1]

(* A request with a boolean expectedIndex on a playlist of two rows ended
   with invalid_input. *)
C33_Witness ==
    /\ pc = "done"
    /\ payload.expectedIndex = JBool(TRUE)
    /\ payload.playlistId = JStr(" PL1 ")
    /\ payload.videoId = JStr("v1")
    /\ Len(remote) = 2
    /\ result = Error("invalid_input", 400)
    /\ calls = NoCalls

-----------------------------------------------------------------------------
(* handle_remove_playlist_items and handle_delete_playlist                   *)

(* for raw_song in raw_songs: the references that normalise to a dict *)
RECURSIVE NormalizedSongs(_)
NormalizedSongs(raw_songs) ==
    IF raw_songs = <<>> THEN <<>>
    ELSE LET normalized_song == normalize_playlist_song_ref(Head(raw_songs)) IN
         IF normalized_song = JNull THEN NormalizedSongs(Tail(raw_songs))
         ELSE <<normalized_song>> \o NormalizedSongs(Tail(raw_songs))

(* The remove primitive: the rows whose token one of the references names
   leave the playlist.  Whether a reference without a token removes the rows
   of its external identifier is the service's choice (byVideoId). *)
RemoveRows(rows, refs, byVideoId) ==
    LET named(row) ==
            \E k \in 1..Len(refs) :
                \/ refs[k].setVideoId # "" /\ row.setVideoId = refs[k].setVideoId
                \/ byVideoId /\ refs[k].setVideoId = "" /\ row.videoId = refs[k].videoId
    IN SelectSeq(rows, LAMBDA row : ~named(row))

RemoveFailed == Error("playlist_song_delete_failed", 502)
DeleteFailed == Error("playlist_delete_failed", 502)

RemovalRefs ==
    { JNull,
      [t |-> "dict", setVideoId |-> JNull, videoId |-> JStr(" ")],
      [t |-> "dict", setVideoId |-> JStr("t1"), videoId |-> JNull],
      [t |-> "dict", setVideoId |-> JStr("t2"), videoId |-> JStr(" v1 ")],
      [t |-> "dict", setVideoId |-> JStr("t9"), videoId |-> JStr("v2")],
      [t |-> "dict", setVideoId |-> JNull, videoId |-> JStr("v2")] }

RemovalPayloads ==
    [action : {"removePlaylistItems"}, playlistId : {JStr(" PL1 "), JNull},
     songs : {JNull} \cup
             { [t |-> "list", items |-> l] :
                 l \in {<<>>} \cup { <<a>> : a \in RemovalRefs }
                       \cup { <<a, b>> : a \in RemovalRefs, b \in RemovalRefs } }]
    \cup
    [action : {"deletePlaylist"}, playlistId : {JStr(" PL1 "), JNull}, songs : {JNull}]

InitRemoval ==
    /\ payload \in RemovalPayloads
    /\ pc = IF payload.action = "removePlaylistItems" THEN "remove" ELSE "delete"
    /\ remote \in Playlists
    /\ InitCommon

(* Lines 310-352.  retried: the keyword call raised TypeError and the
   positional call followed; out is the outcome of the last call made. *)
RemovePlaylistItems ==
    /\ pc = "remove"
    /\ IF playlist_id = "" \/ payload.songs.t # "list"
       THEN /\ result' = Error("invalid_input", 400)
            /\ UNCHANGED <<calls, envVars>>
       ELSE LET removed == NormalizedSongs(payload.songs.items) IN
            IF removed = <<>>
            THEN /\ result' = Error("invalid_input", 400)
                 /\ UNCHANGED <<calls, envVars>>
            ELSE \E retried \in BOOLEAN, byVideoId \in BOOLEAN,
                    out \in {Raised} \cup RefusedResults \cup AppliedResults :
                 /\ calls' = [calls EXCEPT !.remove = @ + (IF retried THEN 2 ELSE 1)]
                 /\ IF out \in AppliedResults
                    THEN /\ remote' = RemoveRows(remote, removed, byVideoId)
                         /\ remotePrev' = remote
                         /\ UNCHANGED <<nextTok, playlistDeleted>>
                    ELSE UNCHANGED envVars
                 /\ result' = IF out = Raised THEN RemoveFailed
                              ELSE IF operation_explicitly_failed(out) THEN RemoveFailed
                              ELSE Ok([playlistId |-> playlist_id,
                                       deletedCount |-> Len(removed)])
    /\ pc' = "done"
    /\ UNCHANGED <<payload, addReturned, editReturned, scanVars, moveItem, moveVars,
                   migVars>>

(* Lines 356-378. *)
DeletePlaylist ==
    /\ pc = "delete"
    /\ IF playlist_id = ""
       THEN /\ result' = Error("invalid_input", 400)
            /\ UNCHANGED <<calls, envVars>>
       ELSE \E out \in {Raised} \cup RefusedResults \cup AppliedResults :
            /\ calls' = Count("delete")
            /\ IF out \in AppliedResults
               THEN /\ playlistDeleted' = TRUE
                    /\ remote' = <<>>
                    /\ remotePrev' = remote
                    /\ UNCHANGED nextTok
               ELSE UNCHANGED envVars
            /\ result' = IF out = Raised THEN DeleteFailed
                         ELSE IF operation_explicitly_failed(out) THEN DeleteFailed
                         ELSE Ok([playlistId |-> playlist_id])
    /\ pc' = "done"
    /\ UNCHANGED <<payload, addReturned, editReturned, scanVars, moveItem, moveVars,
                   migVars>>

NextRemoval == RemovePlaylistItems \/ DeletePlaylist

SpecRemoval == InitRemoval /\ [][NextRemoval]_vars

(* Under SpecRemoval the playlist never grows, only an applied delete_playlist
   call ends it, and a request that fails validation issues no call. *)
RemovalOnlyShrinks ==
    /\ Len(remote) <= Len(remotePrev)
    /\ playlistDeleted => (calls.delete = 1 /\ remote = <<>> /\ result.ok)
    /\ (pc = "done" /\ result.code = "invalid_input") =>
            (calls = NoCalls /\ remote = remotePrev)

(* the token-named row has left a two-row playlist *)
RemovedOneRow ==
    /\ pc = "done"
    /\ remotePrev = <<Row("v1", "t1"), Row("v2", "t2")>>
    /\ remote = <<Row("v2", "t2")>>
    /\ result = Ok([playlistId |-> "PL1", deletedCount |-> 1])

(* the playlist has been deleted *)
PlaylistGone ==
    /\ pc = "done"
    /\ playlistDeleted
    /\ remotePrev = <<Row("v1", "t1"), Row("v2", "t2")>>
    /\ result = Ok([playlistId |-> "PL1"])

====
